---- MODULE Spec2Model ----
(***************************************************************************)
(* setup-env: the interactive .env assistant.                              *)
(*                                                                         *)
(* The model covers model.go (Init, Update, prepareForConfirmation,        *)
(* actuallyWriteEnvFile) and env_utils.go (readEnvVarsFromFile,            *)
(* writeEnvFile, readExistingEnvFile, backupEnvFile).                      *)
(*                                                                         *)
(* A Go string is a sequence of one-character strings; a file is the       *)
(* sequence of its bytes.  A Go map is a function whose DOMAIN is the set  *)
(* of its keys.  The huh forms are an external collaborator: what a form   *)
(* does with a message (edit a field, complete, abort, flip the confirm    *)
(* answer) is chosen nondeterministically, one action per outcome.         *)
(***************************************************************************)
EXTENDS Integers, Sequences, FiniteSets, TLC

\* ------------------------------------------------------------------ bounds
\* at most this many lines in the generated .env.example
MaxTplLines == 2

\* ------------------------------------------------------- strings (package strings)
\* the zero value of a Go string
EmptyStr == << >>

\* unicode.IsSpace restricted to the characters of the model
IsSpace(c) == c \in {" ", "\t", "\n", "\r"}

\* strings.TrimSpace
TrimSpace(s) ==
  LET keep == {i \in 1..Len(s) : ~IsSpace(s[i])}
  IN IF keep = {} THEN EmptyStr
     ELSE LET lo == CHOOSE i \in keep : \A j \in keep : i <= j
              hi == CHOOSE i \in keep : \A j \in keep : i >= j
          IN SubSeq(s, lo, hi)

\* strings.Index for a one-character needle, 1-based, 0 when absent
Index(s, c) ==
  IF \E i \in 1..Len(s) : s[i] = c
  THEN CHOOSE i \in 1..Len(s) : s[i] = c /\ \A j \in 1..(i - 1) : s[j] # c
  ELSE 0

\* strings.HasPrefix for a one-character prefix
HasPrefix(s, c) == Len(s) >= 1 /\ s[1] = c

\* strings.ContainsAny
ContainsAny(s, chars) == \E i \in 1..Len(s) : s[i] \in chars

\* strings.ReplaceAll, for a non-empty old: leftmost non-overlapping matches
RECURSIVE ReplaceAll(_, _, _)
ReplaceAll(s, old, new) ==
  IF Len(s) < Len(old) THEN s
  ELSE IF SubSeq(s, 1, Len(old)) = old
       THEN new \o ReplaceAll(SubSeq(s, Len(old) + 1, Len(s)), old, new)
       ELSE <<s[1]>> \o ReplaceAll(Tail(s), old, new)

\* strings.SplitN(s, "=", 2): one part when there is no "=", else two
SplitN(s) ==
  LET i == Index(s, "=")
  IN IF i = 0 THEN <<s>>
     ELSE <<SubSeq(s, 1, i - 1), SubSeq(s, i + 1, Len(s))>>

\* bufio.Scanner with ScanLines: split at "\n", drop one trailing "\r" of a
\* line, return a final line that has no terminator, never an empty final token
RECURSIVE ScanLines(_)
ScanLines(data) ==
  LET dropCR(l) == IF Len(l) > 0 /\ l[Len(l)] = "\r" THEN SubSeq(l, 1, Len(l) - 1) ELSE l
      i == Index(data, "\n")
  IN IF data = EmptyStr THEN << >>
     ELSE IF i = 0 THEN <<dropCR(data)>>
     ELSE <<dropCR(SubSeq(data, 1, i - 1))>> \o ScanLines(SubSeq(data, i + 1, Len(data)))

\* ------------------------------------------------------------- Go maps
\* make(map[string]string)
EmptyMap == [k \in {} |-> EmptyStr]

\* v, ok := m[k]: the value, or the zero value when the key is absent
MapGet(m, k) == IF k \in DOMAIN m THEN m[k] ELSE EmptyStr

\* m[k] = v
MapPut(m, k, v) == [x \in (DOMAIN m) \cup {k} |-> IF x = k THEN v ELSE m[x]]

\* ------------------------------------------------------------- env_utils.go
\* the quoted-value test and unescape shared by both readers
IsQuoted(v) == Len(v) >= 2 /\ v[1] = "\"" /\ v[Len(v)] = "\""

\* the unescape that forgets the backslash: only \" is replaced
UnquoteQuoteOnly(v) ==
  LET inner == SubSeq(v, 2, Len(v) - 1)
  IN ReplaceAll(inner, <<"\\", "\"">>, <<"\"">>)

\* the value between the quotes, unescaped: all \\ first, then all \"
Unquote(v) ==
  LET inner == SubSeq(v, 2, Len(v) - 1)
      step1 == ReplaceAll(inner, <<"\\", "\\">>, <<"\\">>)
  IN ReplaceAll(step1, <<"\\", "\"">>, <<"\"">>)

\* the scan loop body without the test for an empty key
TemplateLineFieldsKeepEmptyKey(line) ==
  LET lineForParsing == TrimSpace(line)
  IN IF lineForParsing = EmptyStr \/ HasPrefix(lineForParsing, "#") THEN << >>
     ELSE
       LET commentIdx == Index(lineForParsing, "#")
           description == IF commentIdx # 0
                          THEN TrimSpace(SubSeq(lineForParsing, commentIdx + 1, Len(lineForParsing)))
                          ELSE EmptyStr
           keyValuePart == IF commentIdx # 0
                           THEN TrimSpace(SubSeq(lineForParsing, 1, commentIdx - 1))
                           ELSE lineForParsing
           parts == SplitN(keyValuePart)
           key == TrimSpace(parts[1])
           valStr == IF Len(parts) = 2 THEN TrimSpace(parts[2]) ELSE EmptyStr
           exampleValue == IF Len(parts) = 2 /\ IsQuoted(valStr) THEN Unquote(valStr) ELSE valStr
       IN <<[Key |-> key, Description |-> description, ExampleValue |-> exampleValue]>>

\* the scan loop body that cuts the description at the last "#" of the line
TemplateLineFieldsLastHash(line) ==
  LET lineForParsing == TrimSpace(line)
  IN IF lineForParsing = EmptyStr \/ HasPrefix(lineForParsing, "#") THEN << >>
     ELSE
       LET hashes == {i \in 1..Len(lineForParsing) : lineForParsing[i] = "#"}
           commentIdx == IF hashes = {} THEN 0
                         ELSE CHOOSE i \in hashes : \A j \in hashes : j <= i
           description == IF commentIdx # 0
                          THEN TrimSpace(SubSeq(lineForParsing, commentIdx + 1, Len(lineForParsing)))
                          ELSE EmptyStr
           keyValuePart == IF commentIdx # 0
                           THEN TrimSpace(SubSeq(lineForParsing, 1, commentIdx - 1))
                           ELSE lineForParsing
           parts == SplitN(keyValuePart)
           key == TrimSpace(parts[1])
           valStr == IF Len(parts) = 2 THEN TrimSpace(parts[2]) ELSE EmptyStr
           exampleValue == IF Len(parts) = 2 /\ IsQuoted(valStr) THEN Unquote(valStr) ELSE valStr
       IN IF key # EmptyStr
          THEN <<[Key |-> key, Description |-> description, ExampleValue |-> exampleValue]>>
          ELSE << >>

\* the body of the scan loop of readEnvVarsFromFile: the fields (zero or one)
\* that one line of .env.example yields
TemplateLineFields(line) ==
  LET lineForParsing == TrimSpace(line)
  IN IF lineForParsing = EmptyStr \/ HasPrefix(lineForParsing, "#") THEN << >>
     ELSE
       LET commentIdx == Index(lineForParsing, "#")
           description == IF commentIdx # 0
                          THEN TrimSpace(SubSeq(lineForParsing, commentIdx + 1, Len(lineForParsing)))
                          ELSE EmptyStr
           keyValuePart == IF commentIdx # 0
                           THEN TrimSpace(SubSeq(lineForParsing, 1, commentIdx - 1))
                           ELSE lineForParsing
           parts == SplitN(keyValuePart)
           key == TrimSpace(parts[1])
           valStr == IF Len(parts) = 2 THEN TrimSpace(parts[2]) ELSE EmptyStr
           exampleValue == IF Len(parts) = 2 /\ IsQuoted(valStr) THEN Unquote(valStr) ELSE valStr
       IN IF key # EmptyStr
          THEN <<[Key |-> key, Description |-> description, ExampleValue |-> exampleValue]>>
          ELSE << >>

RECURSIVE TemplateFields(_)
TemplateFields(lines) ==
  IF lines = << >> THEN << >>
  ELSE TemplateLineFields(Head(lines)) \o TemplateFields(Tail(lines))

\* readEnvVarsFromFile that reports no error for a file it cannot open
readEnvVarsFromFileNoErr(f) ==
  IF f.kind # "file" THEN [err |-> FALSE, envVars |-> << >>]
  ELSE [err |-> FALSE, envVars |-> TemplateFields(ScanLines(f.data))]

\* readEnvVarsFromFile(path) on a file-system entry f: a missing file fails
\* at os.Open, a directory fails at the first read
readEnvVarsFromFile(f) ==
  IF f.kind # "file" THEN [err |-> TRUE, envVars |-> << >>]
  ELSE [err |-> FALSE, envVars |-> TemplateFields(ScanLines(f.data))]

\* the scan loop body that leaves the key untrimmed
ExistingLineNoKeyTrim(values, rawLine) ==
  LET line == TrimSpace(rawLine)
      parts == SplitN(line)
  IN IF line = EmptyStr \/ HasPrefix(line, "#") THEN values
     ELSE IF Len(parts) = 2
          THEN LET key == parts[1]
                   value == IF IsQuoted(parts[2]) THEN Unquote(parts[2]) ELSE parts[2]
               IN MapPut(values, key, value)
          ELSE values

\* the scan loop body that keeps the first value of a key met again
ExistingLineFirstWins(values, rawLine) ==
  LET line == TrimSpace(rawLine)
      parts == SplitN(line)
  IN IF line = EmptyStr \/ HasPrefix(line, "#") THEN values
     ELSE IF Len(parts) = 2
          THEN LET key == TrimSpace(parts[1])
                   value == IF IsQuoted(parts[2]) THEN Unquote(parts[2]) ELSE parts[2]
               IN IF key \in DOMAIN values THEN values ELSE MapPut(values, key, value)
          ELSE values

\* the body of the scan loop of readExistingEnvFile, applied to the map so far
ExistingLine(values, rawLine) ==
  LET line == TrimSpace(rawLine)
      parts == SplitN(line)
  IN IF line = EmptyStr \/ HasPrefix(line, "#") THEN values
     ELSE IF Len(parts) = 2
          THEN LET key == TrimSpace(parts[1])
                   value == IF IsQuoted(parts[2]) THEN Unquote(parts[2]) ELSE parts[2]
               IN MapPut(values, key, value)
          ELSE values

RECURSIVE ExistingLines(_, _)
ExistingLines(values, lines) ==
  IF lines = << >> THEN values
  ELSE ExistingLines(ExistingLine(values, Head(lines)), Tail(lines))

\* readExistingEnvFile(path) on a file-system entry f; ioFail is an open or
\* scan error other than "does not exist"
readExistingEnvFile(f, ioFail) ==
  IF f.kind = "absent" /\ ~ioFail THEN [err |-> FALSE, values |-> EmptyMap]
  ELSE IF f.kind # "file" \/ ioFail THEN [err |-> TRUE, values |-> EmptyMap]
  ELSE [err |-> FALSE, values |-> ExistingLines(EmptyMap, ScanLines(f.data))]

\* the backquote character (written as a token: a TLA+ string cannot hold it)
BackQuote == "BACKQUOTE"

\* the characters that force quoting, with the dollar sign forgotten
QuoteCharsNoDollar == {" ", "#", "=", "\"", "\\", BackQuote, "\n", "\r"}

\* the characters that force quoting in writeEnvFile
QuoteChars == {" ", "#", "=", "\"", "$", "\\", BackQuote, "\n", "\r"}

\* the line emitted with the substitutions in another order: the backslash
\* escaped last
EncodeLineBackslashLast(key, value) ==
  LET needsQuoting == value = EmptyStr \/ ContainsAny(value, QuoteChars)
      e1 == ReplaceAll(value, <<"\"">>, <<"\\", "\"">>)
      e2 == ReplaceAll(e1, <<"\n">>, <<"\\", "n">>)
      e3 == ReplaceAll(e2, <<"\r">>, <<"\\", "r">>)
      escaped == ReplaceAll(e3, <<"\\">>, <<"\\", "\\">>)
      outputValue == IF needsQuoting THEN <<"\"">> \o escaped \o <<"\"">> ELSE value
  IN key \o <<"=">> \o outputValue \o <<"\n">>

\* the line writeEnvFile emits for one key and value
EncodeLine(key, value) ==
  LET needsQuoting == value = EmptyStr \/ ContainsAny(value, QuoteChars)
      e1 == ReplaceAll(value, <<"\\">>, <<"\\", "\\">>)
      e2 == ReplaceAll(e1, <<"\"">>, <<"\\", "\"">>)
      e3 == ReplaceAll(e2, <<"\n">>, <<"\\", "n">>)
      escaped == ReplaceAll(e3, <<"\r">>, <<"\\", "r">>)
      outputValue == IF needsQuoting THEN <<"\"">> \o escaped \o <<"\"">> ELSE value
  IN key \o <<"=">> \o outputValue \o <<"\n">>

\* the paths the program names
EnvExamplePath == ".env.example"

EnvPath == ".env"

EnvOldPath == ".env.old"

Paths == {EnvExamplePath, EnvPath, EnvOldPath}

\* file-system entries
Absent == [kind |-> "absent", data |-> EmptyStr]

Dir == [kind |-> "dir", data |-> EmptyStr]

File(d) == [kind |-> "file", data |-> d]

\* the sequence s without its elements after the first n
Prefix(s, n) == SubSeq(s, 1, n)

\* faults the operating system can inject into the backup: none, or a failure
\* at os.Stat (other than "does not exist"), os.Open, os.Create, io.Copy
\* (n = 0: before any byte, n = 1: after half of the bytes) or Sync
NoFault == [at |-> "none", n |-> 0]

BackupFaults ==
  {NoFault, [at |-> "stat", n |-> 0], [at |-> "open", n |-> 0], [at |-> "create", n |-> 0],
   [at |-> "copy", n |-> 0], [at |-> "copy", n |-> 1], [at |-> "sync", n |-> 0]}

\* backupEnvFile(srcPath, dstPath) on file system fsys: the new file system,
\* whether an error is returned, and the mutations performed, in order
backupEnvFile(fsys, srcPath, dstPath, fault) ==
  LET src == fsys[srcPath]
      copied == IF src.kind = "dir" THEN EmptyStr
                ELSE IF fault.at = "copy"
                     THEN Prefix(src.data, IF fault.n = 0 THEN 0 ELSE Len(src.data) \div 2)
                     ELSE src.data
      created == [fsys EXCEPT ![dstPath] = File(EmptyStr)]
      written == [fsys EXCEPT ![dstPath] = File(copied)]
      createEv == [op |-> "create", path |-> dstPath, data |-> EmptyStr]
      copyEv == [op |-> "write", path |-> dstPath, data |-> copied]
  IN IF src.kind = "absent" \/ fault.at = "open"
     THEN [fs |-> fsys, err |-> TRUE, log |-> << >>]
     ELSE IF fsys[dstPath].kind = "dir" \/ fault.at = "create"
     THEN [fs |-> fsys, err |-> TRUE, log |-> << >>]
     ELSE IF src.kind = "dir" \/ fault.at = "copy"
     THEN [fs |-> written, err |-> TRUE, log |-> <<createEv, copyEv>>]
     ELSE [fs |-> written, err |-> fault.at = "sync", log |-> <<createEv, copyEv>>]

\* the lines written for the keys order[1..n], in that order
RECURSIVE EncodeLines(_, _, _)
EncodeLines(values, order, n) ==
  IF n = 0 THEN EmptyStr
  ELSE EncodeLines(values, order, n - 1) \o EncodeLine(order[n], values[order[n]])

\* the write events of the first n lines
WriteEvents(path, values, order, n) ==
  [i \in 1..n |-> [op |-> "write", path |-> path, data |-> EncodeLine(order[i], values[order[i]])]]

\* the orders in which a range loop can visit the keys of a map
KeyOrders(values) ==
  {o \in [1..Cardinality(DOMAIN values) -> DOMAIN values] :
      \A i, j \in DOMAIN o : i # j => o[i] # o[j]}

\* writeEnvFile that opens the target for appending instead of truncating it
writeEnvFileAppend(fsys, path, values, order, failAt) ==
  LET n == Len(order)
      done == IF failAt > n THEN n ELSE failAt - 1
      createEv == [op |-> "create", path |-> path, data |-> EmptyStr]
      failEv == [op |-> "createFailed", path |-> path, data |-> EmptyStr]
  IN IF fsys[path].kind = "dir" \/ failAt = 0
     THEN [fs |-> fsys, err |-> TRUE, log |-> <<failEv>>]
     ELSE [fs |-> [fsys EXCEPT ![path] = File(fsys[path].data \o EncodeLines(values, order, done))],
           err |-> failAt <= n,
           log |-> <<createEv>> \o WriteEvents(path, values, order, done)]

\* writeEnvFile(values) with envOutputFilePath = path.  order is the order in
\* which the range loop visits the keys; failAt = 0: os.Create fails,
\* failAt = k in 1..n: the k-th WriteString fails, failAt > n: no failure.
\* The log carries a "createFailed" event where os.Create returns an error
writeEnvFile(fsys, path, values, order, failAt) ==
  LET n == Len(order)
      done == IF failAt > n THEN n ELSE failAt - 1
      createEv == [op |-> "create", path |-> path, data |-> EmptyStr]
      failEv == [op |-> "createFailed", path |-> path, data |-> EmptyStr]
  IN IF fsys[path].kind = "dir" \/ failAt = 0
     THEN [fs |-> fsys, err |-> TRUE, log |-> <<failEv>>]
     ELSE [fs |-> [fsys EXCEPT ![path] = File(EncodeLines(values, order, done))],
           err |-> failAt <= n,
           log |-> <<createEv>> \o WriteEvents(path, values, order, done)]

\* actuallyWriteEnvFile with the two steps swapped: write, then back up
actuallyWriteEnvFileWriteFirst(fsys, outPath, envValues, order, fault, failAt) ==
  LET w == writeEnvFile(fsys, outPath, envValues, order, failAt)
      attempted == fsys[EnvPath].kind = "file" /\ fault.at # "stat"
      b == IF attempted
           THEN backupEnvFile(w.fs, EnvPath, EnvOldPath, fault)
           ELSE [fs |-> w.fs, err |-> FALSE, log |-> << >>]
      backedUp == IF attempted /\ ~b.err
                  THEN <<[op |-> "backedUp", path |-> EnvOldPath, data |-> EmptyStr]>>
                  ELSE << >>
  IN [fs |-> b.fs, err |-> w.err, log |-> w.log \o b.log \o backedUp]

\* actuallyWriteEnvFile that returns the backup error instead of warning: a
\* failed backup ends the commit before the write
actuallyWriteEnvFileAbortOnBackupErr(fsys, outPath, envValues, order, fault, failAt) ==
  LET statOk == fsys[EnvPath].kind # "absent" /\ fault.at # "stat"
      attempted == statOk /\ fsys[EnvPath].kind = "file"
      b == IF attempted
           THEN backupEnvFile(fsys, EnvPath, EnvOldPath, fault)
           ELSE [fs |-> fsys, err |-> FALSE, log |-> << >>]
      backedUp == IF ~attempted THEN << >>
                  ELSE IF b.err
                  THEN <<[op |-> "backupFailed", path |-> EnvOldPath, data |-> EmptyStr]>>
                  ELSE <<[op |-> "backedUp", path |-> EnvOldPath, data |-> EmptyStr]>>
      w == writeEnvFile(b.fs, outPath, envValues, order, failAt)
  IN IF b.err
     THEN [fs |-> b.fs, err |-> TRUE, log |-> b.log \o backedUp]
     ELSE [fs |-> w.fs, err |-> w.err, log |-> b.log \o backedUp \o w.log]

\* actuallyWriteEnvFile that removes the backup it made when the write fails
actuallyWriteEnvFileRollback(fsys, outPath, envValues, order, fault, failAt) ==
  LET statOk == fsys[EnvPath].kind # "absent" /\ fault.at # "stat"
      attempted == statOk /\ fsys[EnvPath].kind = "file"
      b == IF attempted
           THEN backupEnvFile(fsys, EnvPath, EnvOldPath, fault)
           ELSE [fs |-> fsys, err |-> FALSE, log |-> << >>]
      backedUp == IF ~attempted THEN << >>
                  ELSE IF b.err
                  THEN <<[op |-> "backupFailed", path |-> EnvOldPath, data |-> EmptyStr]>>
                  ELSE <<[op |-> "backedUp", path |-> EnvOldPath, data |-> EmptyStr]>>
      w == writeEnvFile(b.fs, outPath, envValues, order, failAt)
  IN [fs |-> IF w.err /\ attempted THEN [w.fs EXCEPT ![EnvOldPath] = Absent] ELSE w.fs,
      err |-> w.err, log |-> b.log \o backedUp \o w.log]

\* actuallyWriteEnvFile without the IsDir test: whatever os.Stat finds is
\* handed to backupEnvFile
actuallyWriteEnvFileNoDirCheck(fsys, outPath, envValues, order, fault, failAt) ==
  LET statOk == fsys[EnvPath].kind # "absent" /\ fault.at # "stat"
      attempted == statOk
      b == IF attempted
           THEN backupEnvFile(fsys, EnvPath, EnvOldPath, fault)
           ELSE [fs |-> fsys, err |-> FALSE, log |-> << >>]
      backedUp == IF ~attempted THEN << >>
                  ELSE IF b.err
                  THEN <<[op |-> "backupFailed", path |-> EnvOldPath, data |-> EmptyStr]>>
                  ELSE <<[op |-> "backedUp", path |-> EnvOldPath, data |-> EmptyStr]>>
      w == writeEnvFile(b.fs, outPath, envValues, order, failAt)
  IN [fs |-> w.fs, err |-> w.err, log |-> b.log \o backedUp \o w.log]

\* actuallyWriteEnvFile(envValues): stat ".env", back it up to ".env.old" when
\* it is a regular file, then writeEnvFile to outPath (envOutputFilePath).
\* The log also carries a "backedUp" event where the code prints
\* "Successfully backed up .env to .env.old." and a "backupFailed" event where
\* it prints "Warning: Failed to backup .env"
actuallyWriteEnvFile(fsys, outPath, envValues, order, fault, failAt) ==
  LET statOk == fsys[EnvPath].kind # "absent" /\ fault.at # "stat"
      b == IF statOk /\ fsys[EnvPath].kind = "file"
           THEN backupEnvFile(fsys, EnvPath, EnvOldPath, fault)
           ELSE [fs |-> fsys, err |-> FALSE, log |-> << >>]
      attempted == statOk /\ fsys[EnvPath].kind = "file"
      backedUp == IF ~attempted THEN << >>
                  ELSE IF b.err
                  THEN <<[op |-> "backupFailed", path |-> EnvOldPath, data |-> EmptyStr]>>
                  ELSE <<[op |-> "backedUp", path |-> EnvOldPath, data |-> EmptyStr]>>
      w == writeEnvFile(b.fs, outPath, envValues, order, failAt)
  IN [fs |-> w.fs, err |-> w.err, log |-> b.log \o backedUp \o w.log]

\* ------------------------------------------------------------- model.go
\* the error values of the model (m.err)
NoErr == "nil"

ErrTemplateRead == "Error reading .env.example"

ErrTemplateEmpty == "No environment variables found in .env.example."

ErrCast == "error: could not cast field to huh.Input"

ErrWrite == "error writing .env file"

\* fmt.Sprintf kept symbolic: the format string and its arguments
Sprintf(format, args) == [fmt |-> format, args |-> args]

NoChangesMsg == <<Sprintf("No changes to apply to .env file.", << >>)>>

\* the prefill with the priority reversed: the template default first
InitialValuePreferExample(envVar, existing) ==
  IF envVar.ExampleValue # EmptyStr THEN envVar.ExampleValue
  ELSE MapGet(existing, envVar.Key)

\* the initial value of the form field of envVar (Init, the loop body)
InitialValue(envVar, existing) ==
  LET valueExistsInEnv == envVar.Key \in DOMAIN existing
      initialValue == MapGet(existing, envVar.Key)
  IN IF ~valueExistsInEnv \/ initialValue = EmptyStr
     THEN IF envVar.ExampleValue # EmptyStr THEN envVar.ExampleValue ELSE initialValue
     ELSE initialValue

\* the first loop of prepareForConfirmation: the map of the values of the
\* first n fields
RECURSIVE CollectValues(_, _, _)
CollectValues(vars, flds, n) ==
  IF n = 0 THEN EmptyMap
  ELSE MapPut(CollectValues(vars, flds, n - 1), vars[n].Key, flds[n].value)

\* DiffLine without its third branch: an empty value for a new key is no change
DiffLineNoEmptyAdd(key, oldExists, oldValue, newValue) ==
  IF ~oldExists /\ newValue # EmptyStr
  THEN <<Sprintf("+ Added: %s=\"%s\"", <<key, newValue>>)>>
  ELSE IF oldExists /\ newValue # oldValue
  THEN IF newValue = EmptyStr
       THEN <<Sprintf("~ Cleared: %s (was \"%s\")", <<key, oldValue>>)>>
       ELSE <<Sprintf("~ Changed: %s: \"%s\" -> \"%s\"", <<key, oldValue, newValue>>)>>
  ELSE << >>

\* DiffLine whose second branch does not compare the values
DiffLineNoCompare(key, oldExists, oldValue, newValue) ==
  IF ~oldExists /\ newValue # EmptyStr
  THEN <<Sprintf("+ Added: %s=\"%s\"", <<key, newValue>>)>>
  ELSE IF oldExists
  THEN IF newValue = EmptyStr
       THEN <<Sprintf("~ Cleared: %s (was \"%s\")", <<key, oldValue>>)>>
       ELSE <<Sprintf("~ Changed: %s: \"%s\" -> \"%s\"", <<key, oldValue, newValue>>)>>
  ELSE IF ~oldExists /\ newValue = EmptyStr
  THEN <<Sprintf("+ Added: %s=\"\"", <<key>>)>>
  ELSE << >>

\* the body of the second loop of prepareForConfirmation: the diff lines
\* (zero or one) of one key
DiffLine(key, oldExists, oldValue, newValue) ==
  IF ~oldExists /\ newValue # EmptyStr
  THEN <<Sprintf("+ Added: %s=\"%s\"", <<key, newValue>>)>>
  ELSE IF oldExists /\ newValue # oldValue
  THEN IF newValue = EmptyStr
       THEN <<Sprintf("~ Cleared: %s (was \"%s\")", <<key, oldValue>>)>>
       ELSE <<Sprintf("~ Changed: %s: \"%s\" -> \"%s\"", <<key, oldValue, newValue>>)>>
  ELSE IF ~oldExists /\ newValue = EmptyStr
  THEN <<Sprintf("+ Added: %s=\"\"", <<key>>)>>
  ELSE << >>

\* the second loop of prepareForConfirmation: diffLines for the keys order[1..n]
RECURSIVE computeChanges(_, _, _, _)
computeChanges(old, new, order, n) ==
  IF n = 0 THEN << >>
  ELSE computeChanges(old, new, order, n - 1)
         \o DiffLine(order[n], order[n] \in DOMAIN old, MapGet(old, order[n]), MapGet(new, order[n]))

\* the assignments changed = true of the second loop, for one key
KeyChanged(oldExists, oldValue, newValue) ==
  \/ ~oldExists /\ newValue # EmptyStr
  \/ oldExists /\ newValue # oldValue
  \/ ~oldExists /\ newValue = EmptyStr

\* the keys of the fields, in template order
KeyOrder(vars) == [i \in 1..Len(vars) |-> vars[i].Key]

\* prepareForConfirmation without the early return of the unchanged case
prepareForConfirmationNoEarlyReturn(vars, flds, existing, cur) ==
  LET collectedEnvValues == CollectValues(vars, flds, Len(vars))
      diffLines == computeChanges(existing, collectedEnvValues, KeyOrder(vars), Len(vars))
  IN IF \E i \in 1..Len(vars) : ~flds[i].isInput
     THEN [cur EXCEPT !.err = ErrCast]
     ELSE [cur EXCEPT !.err = NoErr, !.envValuesToSave = collectedEnvValues,
                      !.diffSummary = diffLines, !.confirmForm = "normal",
                      !.confirming = TRUE]

\* prepareForConfirmation that saves the collected values on top of the
\* existing ones
prepareForConfirmationMerge(vars, flds, existing, cur) ==
  LET collectedEnvValues == CollectValues(vars, flds, Len(vars))
      merged == [k \in (DOMAIN existing) \cup (DOMAIN collectedEnvValues) |->
                   IF k \in DOMAIN collectedEnvValues THEN collectedEnvValues[k] ELSE existing[k]]
      diffLines == computeChanges(existing, collectedEnvValues, KeyOrder(vars), Len(vars))
  IN IF \E i \in 1..Len(vars) : ~flds[i].isInput
     THEN [cur EXCEPT !.err = ErrCast]
     ELSE IF diffLines = << >>
     THEN [cur EXCEPT !.err = NoErr, !.diffSummary = NoChangesMsg, !.quitting = TRUE]
     ELSE [cur EXCEPT !.err = NoErr, !.envValuesToSave = merged,
                      !.diffSummary = diffLines, !.confirmForm = "normal",
                      !.confirming = TRUE]

\* prepareForConfirmation that never stores the collected values
prepareForConfirmationNoStore(vars, flds, existing, cur) ==
  LET collectedEnvValues == CollectValues(vars, flds, Len(vars))
      diffLines == computeChanges(existing, collectedEnvValues, KeyOrder(vars), Len(vars))
  IN IF \E i \in 1..Len(vars) : ~flds[i].isInput
     THEN [cur EXCEPT !.err = ErrCast]
     ELSE IF diffLines = << >>
     THEN [cur EXCEPT !.err = NoErr, !.diffSummary = NoChangesMsg, !.quitting = TRUE]
     ELSE [cur EXCEPT !.err = NoErr, !.diffSummary = diffLines, !.confirmForm = "normal",
                      !.confirming = TRUE]

\* prepareForConfirmation that passes over a field it cannot cast instead of
\* returning the error
prepareForConfirmationSkipCast(vars, flds, existing, cur) ==
  LET collectedEnvValues == CollectValues(vars, flds, Len(vars))
      diffLines == computeChanges(existing, collectedEnvValues, KeyOrder(vars), Len(vars))
      changed == \E i \in 1..Len(vars) :
                    KeyChanged(vars[i].Key \in DOMAIN existing, MapGet(existing, vars[i].Key),
                               MapGet(collectedEnvValues, vars[i].Key))
  IN IF ~changed
     THEN [cur EXCEPT !.err = NoErr, !.diffSummary = NoChangesMsg, !.quitting = TRUE]
     ELSE [cur EXCEPT !.err = NoErr, !.envValuesToSave = collectedEnvValues,
                      !.diffSummary = diffLines, !.confirmForm = "normal",
                      !.confirming = TRUE]

\* prepareForConfirmation(): the error it returns and the values it leaves in
\* the fields of the model it assigns (cur holds their values before the call)
prepareForConfirmation(vars, flds, existing, cur) ==
  LET collectedEnvValues == CollectValues(vars, flds, Len(vars))
      diffLines == computeChanges(existing, collectedEnvValues, KeyOrder(vars), Len(vars))
      changed == \E i \in 1..Len(vars) :
                    KeyChanged(vars[i].Key \in DOMAIN existing, MapGet(existing, vars[i].Key),
                               MapGet(collectedEnvValues, vars[i].Key))
  IN IF \E i \in 1..Len(vars) : ~flds[i].isInput
     THEN [cur EXCEPT !.err = ErrCast]
     ELSE IF ~changed
     THEN [cur EXCEPT !.err = NoErr, !.diffSummary = NoChangesMsg, !.quitting = TRUE]
     ELSE [cur EXCEPT !.err = NoErr, !.envValuesToSave = collectedEnvValues,
                      !.diffSummary = diffLines, !.confirmForm = "normal",
                      !.confirming = TRUE]

\* ------------------------------------------------------------- state
VARIABLES
  fs,                 \* the file system: path -> entry
  envOutputFilePath,  \* env_utils.go: the package variable
  pc,                 \* "constructed" after initialModel(), "running" after Init()
  envVars, existingEnvValues, fields, form, width, height, quitting, err,
  confirming, confirmForm, envValuesToSave, applyChanges, diffSummary,  \* model
  lastCmd,            \* the tea.Cmd returned by the last Init or Update
  lastMsg,            \* history: the message of the last Update that passed the early returns
  fs0,                \* history: the file system before the invocation
  ioLog,              \* history: the file mutations performed and the outcomes reported, in order
  diffIn, diffOut,    \* input and output of the diff loop run on its own
  codecIn, codecOut   \* input and output of the codec functions run on their own

modelVars == <<envVars, existingEnvValues, fields, form, width, height, quitting, err,
               confirming, confirmForm, envValuesToSave, applyChanges, diffSummary>>

fileVars == <<fs, ioLog>>

fixedVars == <<envOutputFilePath, fs0>>

probeVars == <<diffIn, diffOut, codecIn, codecOut>>

vars == <<fs, envOutputFilePath, pc, modelVars, lastCmd, lastMsg, fs0, ioLog, probeVars>>

\* ------------------------------------------------------------- inputs
\* the lines a generated .env.example is made of
TemplateLineSet ==
  { <<"A", "=", "1">>,
    <<"B", " ", "#", " ", "d">> }

\* the existing .env files tried, each as the sequence of its lines
EnvLineSeqs ==
  { << >>,
    << <<"A", "=", "0">> >>,
    << <<"A", "=">> >>,
    << <<"C", "=", "3">> >>,
    << <<"A", "=", "0">>, <<"B", "=">> >>,
    << <<"A", "=", "0">>, <<"C", "=", "3">> >> }

\* the values the user types into a field
UserValues == { EmptyStr, <<"x", " ", "y">> }

\* the window sizes the terminal reports
WindowSizes == { <<80, 24>> }

\* sequences over S of length at most n
SeqUpTo(S, n) == UNION {[1..k -> S] : k \in 0..n}

\* the bytes of a file made of the given lines, each terminated by a newline
RECURSIVE JoinLines(_)
JoinLines(lines) ==
  IF lines = << >> THEN EmptyStr
  ELSE Head(lines) \o <<"\n">> \o JoinLines(Tail(lines))

TemplateFiles == {Absent} \cup {File(JoinLines(ls)) : ls \in SeqUpTo(TemplateLineSet, MaxTplLines)}

EnvFiles == {Absent, Dir} \cup {File(JoinLines(ls)) : ls \in EnvLineSeqs}

EnvOldFiles == {Absent, File(<<"Z", "=", "9", "\n">>)}

\* ------------------------------------------------------------- initialModel
\* the state after m := initialModel(), before tea runs Init
InitModel ==
  /\ pc = "constructed"
  /\ envVars = << >>
  /\ existingEnvValues = EmptyMap
  /\ fields = << >>
  /\ form = "nil"
  /\ width = 0
  /\ height = 0
  /\ quitting = FALSE
  /\ err = NoErr
  /\ confirming = FALSE
  /\ confirmForm = "nil"
  /\ envValuesToSave = EmptyMap
  /\ applyChanges = TRUE
  /\ diffSummary = << >>
  /\ lastCmd = "none"
  /\ lastMsg = "none"
  /\ ioLog = << >>

Init ==
  /\ InitModel
  /\ \E t \in TemplateFiles, e \in EnvFiles, o \in EnvOldFiles :
       fs = [p \in Paths |-> IF p = EnvExamplePath THEN t ELSE IF p = EnvPath THEN e ELSE o]
  /\ fs0 = fs
  /\ envOutputFilePath = EnvPath
  /\ diffIn = << >>
  /\ diffOut = << >>
  /\ codecIn = << >>
  /\ codecOut = << >>

\* ------------------------------------------------------------- Init()
\* the error Init with a failed read of .env treated as fatal
InitErrorStrict(t, e) ==
  IF t.err THEN ErrTemplateRead
  ELSE IF t.envVars = << >> THEN ErrTemplateEmpty
  ELSE IF e.err THEN "Error reading .env"
  ELSE NoErr

\* the error Init stores in m.err, given the results t of reading the template
\* and e of reading .env: a failed read of .env is only warned about
InitError(t, e) ==
  IF t.err THEN ErrTemplateRead
  ELSE IF t.envVars = << >> THEN ErrTemplateEmpty
  ELSE NoErr

\* model.Init: load the template, read the existing values, build the fields
\* and the form
ModelInit ==
  /\ pc = "constructed"
  /\ pc' = "running"
  /\ \E ioFail \in BOOLEAN :
       LET t == readEnvVarsFromFile(fs[EnvExamplePath])
           e == readExistingEnvFile(fs[EnvPath], ioFail)
           existing == IF e.err THEN EmptyMap ELSE e.values
       IN IF InitError(t, e) # NoErr
          THEN /\ err' = InitError(t, e)
               /\ lastCmd' = "quit"
               /\ UNCHANGED <<envVars, existingEnvValues, fields, form>>
          ELSE /\ envVars' = t.envVars
               /\ existingEnvValues' = existing
               /\ fields' = [i \in 1..Len(t.envVars) |->
                               [isInput |-> TRUE, value |-> InitialValue(t.envVars[i], existing)]]
               /\ form' = "normal"
               /\ lastCmd' = "formInit"
               /\ err' = err
  /\ UNCHANGED <<width, height, quitting, confirming, confirmForm, envValuesToSave,
                 applyChanges, diffSummary>>
  /\ UNCHANGED <<lastMsg, fileVars, fixedVars, probeVars>>

\* ------------------------------------------------------------- Update(msg)
\* the two early returns at the top of Update
Terminal == err # NoErr \/ quitting

\* Update without its early returns, a tea.WindowSizeMsg arriving in a
\* terminal state: the size is recorded and the forms get the message
UpdateTerminalNoReturn ==
  /\ pc = "running"
  /\ Terminal
  /\ \E sz \in WindowSizes :
       /\ width' = sz[1]
       /\ height' = sz[2]
  /\ lastCmd' = "batch"
  /\ UNCHANGED <<envVars, existingEnvValues, fields, form, quitting, err, confirming,
                 confirmForm, envValuesToSave, applyChanges, diffSummary>>
  /\ UNCHANGED <<pc, lastMsg, fileVars, fixedVars, probeVars>>

\* Update without its early returns, a message arriving after the commit: the
\* confirm form is still completed, so the commit step runs again
UpdateTerminalRecommit ==
  /\ pc = "running"
  /\ Terminal
  /\ IF confirming /\ confirmForm = "completed" /\ applyChanges
     THEN \E order \in KeyOrders(envValuesToSave), fault \in BackupFaults,
             failAt \in 0..(Cardinality(DOMAIN envValuesToSave) + 1) :
            LET r == actuallyWriteEnvFile(fs, envOutputFilePath, envValuesToSave,
                                          order, fault, failAt)
            IN /\ fs' = r.fs
               /\ ioLog' = ioLog \o r.log
     ELSE UNCHANGED <<fs, ioLog>>
  /\ lastCmd' = "quit"
  /\ UNCHANGED <<pc, modelVars, lastMsg, fixedVars, probeVars>>

\* Update(msg), any message, in a terminal state: return tea.Quit, touch nothing
UpdateTerminal ==
  /\ pc = "running"
  /\ Terminal
  /\ lastCmd' = "quit"
  /\ UNCHANGED <<pc, modelVars, lastMsg, fileVars, fixedVars, probeVars>>

\* Update(tea.WindowSizeMsg) past the early returns: record the size; the form in charge keeps its state
UpdateWindowSize ==
  /\ pc = "running"
  /\ ~Terminal
  /\ \E sz \in WindowSizes :
       /\ width' = sz[1]
       /\ height' = sz[2]
  /\ lastMsg' = "WindowSizeMsg"
  /\ lastCmd' = "batch"
  /\ UNCHANGED <<envVars, existingEnvValues, fields, form, quitting, err, confirming,
                 confirmForm, envValuesToSave, applyChanges, diffSummary>>
  /\ UNCHANGED <<pc, fileVars, fixedVars, probeVars>>

\* Update(tea.KeyMsg "ctrl+c") with the key test placed after the confirmation
\* branch: while confirming, the commit test runs first and finds
\* applyChanges as it stands
UpdateCtrlCAfterConfirm ==
  /\ pc = "running"
  /\ ~Terminal
  /\ IF confirming /\ applyChanges
     THEN \E order \in KeyOrders(envValuesToSave), fault \in BackupFaults,
             failAt \in 0..(Cardinality(DOMAIN envValuesToSave) + 1) :
            LET r == actuallyWriteEnvFile(fs, envOutputFilePath, envValuesToSave,
                                          order, fault, failAt)
            IN /\ fs' = r.fs
               /\ ioLog' = ioLog \o r.log
               /\ err' = IF r.err THEN ErrWrite ELSE err
     ELSE UNCHANGED <<fs, ioLog, err>>
  /\ quitting' = TRUE
  /\ lastMsg' = "ctrl+c"
  /\ lastCmd' = "quit"
  /\ UNCHANGED <<envVars, existingEnvValues, fields, form, width, height, confirming,
                 confirmForm, envValuesToSave, applyChanges, diffSummary>>
  /\ UNCHANGED <<pc, fixedVars, probeVars>>

\* Update(tea.KeyMsg "ctrl+c") without the interception: the key is left to
\* the form in charge, which ignores it
UpdateCtrlCIgnored ==
  /\ pc = "running"
  /\ ~Terminal
  /\ lastMsg' = "ctrl+c"
  /\ lastCmd' = "batch"
  /\ UNCHANGED <<pc, modelVars, fileVars, fixedVars, probeVars>>

\* Update(tea.KeyMsg "ctrl+c"): quit before any form sees the message
UpdateCtrlC ==
  /\ pc = "running"
  /\ ~Terminal
  /\ quitting' = TRUE
  /\ lastMsg' = "ctrl+c"
  /\ lastCmd' = "quit"
  /\ UNCHANGED <<envVars, existingEnvValues, fields, form, width, height, err, confirming,
                 confirmForm, envValuesToSave, applyChanges, diffSummary>>
  /\ UNCHANGED <<pc, fileVars, fixedVars, probeVars>>

\* Update(msg) while collecting, the main form stores a typed value in a field
UpdateMainFormEdit ==
  /\ pc = "running"
  /\ ~Terminal
  /\ ~confirming
  /\ \E i \in 1..Len(fields), v \in UserValues :
       fields' = [fields EXCEPT ![i].value = v]
  /\ lastMsg' = "other"
  /\ lastCmd' = "batch"
  /\ UNCHANGED <<envVars, existingEnvValues, form, width, height, quitting, err, confirming,
                 confirmForm, envValuesToSave, applyChanges, diffSummary>>
  /\ UNCHANGED <<pc, fileVars, fixedVars, probeVars>>

\* Update(msg) while collecting, the main form reaches StateCompleted
UpdateMainFormCompleted ==
  /\ pc = "running"
  /\ ~Terminal
  /\ ~confirming
  /\ form' = "completed"
  /\ LET cur == [err |-> err, quitting |-> quitting, confirming |-> confirming,
                 confirmForm |-> confirmForm, envValuesToSave |-> envValuesToSave,
                 diffSummary |-> diffSummary]
         r == prepareForConfirmation(envVars, fields, existingEnvValues, cur)
     IN /\ err' = r.err
        /\ quitting' = IF r.err # NoErr THEN TRUE ELSE r.quitting
        /\ confirming' = r.confirming
        /\ confirmForm' = r.confirmForm
        /\ envValuesToSave' = r.envValuesToSave
        /\ diffSummary' = r.diffSummary
        /\ lastMsg' = "other"
        /\ lastCmd' = IF r.err # NoErr \/ r.quitting THEN "quit" ELSE "batch"
  /\ UNCHANGED <<envVars, existingEnvValues, fields, width, height, applyChanges>>
  /\ UNCHANGED <<pc, fileVars, fixedVars, probeVars>>

\* Update(msg) while collecting, the main form reaches StateAborted
UpdateMainFormAborted ==
  /\ pc = "running"
  /\ ~Terminal
  /\ ~confirming
  /\ form' = "aborted"
  /\ quitting' = TRUE
  /\ lastMsg' = "other"
  /\ lastCmd' = "quit"
  /\ UNCHANGED <<envVars, existingEnvValues, fields, width, height, err, confirming,
                 confirmForm, envValuesToSave, applyChanges, diffSummary>>
  /\ UNCHANGED <<pc, fileVars, fixedVars, probeVars>>

\* Update(msg) while confirming, the confirm field stores an answer and the
\* confirm form stays open
UpdateConfirmAnswer ==
  /\ pc = "running"
  /\ ~Terminal
  /\ confirming
  /\ \E answer \in BOOLEAN : applyChanges' = answer
  /\ lastMsg' = "other"
  /\ lastCmd' = "batch"
  /\ UNCHANGED <<envVars, existingEnvValues, fields, form, width, height, quitting, err,
                 confirming, confirmForm, envValuesToSave, diffSummary>>
  /\ UNCHANGED <<pc, fileVars, fixedVars, probeVars>>

\* the commit guard with the answer inverted
ShouldCommitInverted(answer) == ~answer

\* the commit guard that ignores the answer
ShouldCommitAlways(answer) == TRUE

\* the test "if m.applyChanges" that guards the commit
ShouldCommit(answer) == answer

\* Update(msg) while confirming, the confirm form reaches StateCompleted with
\* the given answer: commit, or discard
UpdateConfirmCompleted ==
  /\ pc = "running"
  /\ ~Terminal
  /\ confirming
  /\ confirmForm' = "completed"
  /\ \E answer \in BOOLEAN :
       /\ applyChanges' = answer
       /\ IF ShouldCommit(answer)
          THEN \E order \in KeyOrders(envValuesToSave), fault \in BackupFaults,
                  failAt \in 0..(Cardinality(DOMAIN envValuesToSave) + 1) :
                 LET r == actuallyWriteEnvFile(fs, envOutputFilePath, envValuesToSave,
                                               order, fault, failAt)
                 IN /\ fs' = r.fs
                    /\ ioLog' = ioLog \o r.log
                    /\ err' = IF r.err THEN ErrWrite ELSE err
          ELSE UNCHANGED <<fs, ioLog, err>>
  /\ quitting' = TRUE
  /\ lastMsg' = "other"
  /\ lastCmd' = "quit"
  /\ UNCHANGED <<envVars, existingEnvValues, fields, form, width, height, confirming,
                 envValuesToSave, diffSummary>>
  /\ UNCHANGED <<pc, fixedVars, probeVars>>

\* Update(msg) while confirming, the confirm form reaches StateAborted
UpdateConfirmAborted ==
  /\ pc = "running"
  /\ ~Terminal
  /\ confirming
  /\ confirmForm' = "aborted"
  /\ quitting' = TRUE
  /\ lastMsg' = "other"
  /\ lastCmd' = "quit"
  /\ UNCHANGED <<envVars, existingEnvValues, fields, form, width, height, err, confirming,
                 envValuesToSave, applyChanges, diffSummary>>
  /\ UNCHANGED <<pc, fileVars, fixedVars, probeVars>>

Next ==
  \/ ModelInit
  \/ UpdateTerminal
  \/ UpdateWindowSize
  \/ UpdateCtrlC
  \/ UpdateMainFormEdit
  \/ UpdateMainFormCompleted
  \/ UpdateMainFormAborted
  \/ UpdateConfirmAnswer
  \/ UpdateConfirmCompleted
  \/ UpdateConfirmAborted

Spec == Init /\ [][Next]_vars

\* ------------------------------------------------------------- main()
\* the texts of the errors, as err.Error() renders them

\* "Error reading .env.example: "
TextTemplateReadPrefix ==
  << "E", "r", "r", "o", "r", " ", "r", "e", "a", "d", "i", "n", "g", " ", ".", "e", "n",
    "v", ".", "e", "x", "a", "m", "p", "l", "e", ":", " " >>

\* ". Please create one to use as a template."
TextTemplateReadSuffix ==
  << ".", " ", "P", "l", "e", "a", "s", "e", " ", "c", "r", "e", "a", "t", "e", " ", "o",
    "n", "e", " ", "t", "o", " ", "u", "s", "e", " ", "a", "s", " ", "a", " ", "t", "e",
    "m", "p", "l", "a", "t", "e", "." >>

\* "No environment variables found in .env.example."
TextTemplateEmpty ==
  << "N", "o", " ", "e", "n", "v", "i", "r", "o", "n", "m", "e", "n", "t", " ", "v", "a",
    "r", "i", "a", "b", "l", "e", "s", " ", "f", "o", "u", "n", "d", " ", "i", "n", " ",
    ".", "e", "n", "v", ".", "e", "x", "a", "m", "p", "l", "e", "." >>

\* "error: could not cast field for key "
TextCastPrefix ==
  << "e", "r", "r", "o", "r", ":", " ", "c", "o", "u", "l", "d", " ", "n", "o", "t", " ",
    "c", "a", "s", "t", " ", "f", "i", "e", "l", "d", " ", "f", "o", "r", " ", "k", "e",
    "y", " " >>

\* " to huh.Input"
TextCastSuffix ==
  << " ", "t", "o", " ", "h", "u", "h", ".", "I", "n", "p", "u", "t" >>

\* "error writing .env file: "
TextWritePrefix ==
  << "e", "r", "r", "o", "r", " ", "w", "r", "i", "t", "i", "n", "g", " ", ".", "e", "n",
    "v", " ", "f", "i", "l", "e", ":", " " >>

\* the texts os.Open can give for a template it cannot open:
\* "open .env.example: no such file or directory",
\* "open .env.example: permission denied"
OsTemplateErrors ==
  { << "o", "p", "e", "n", " ", ".", "e", "n", "v", ".", "e", "x", "a", "m", "p", "l", "e",
      ":", " ", "n", "o", " ", "s", "u", "c", "h", " ", "f", "i", "l", "e", " ", "o", "r",
      " ", "d", "i", "r", "e", "c", "t", "o", "r", "y" >>,
    << "o", "p", "e", "n", " ", ".", "e", "n", "v", ".", "e", "x", "a", "m", "p", "l", "e",
      ":", " ", "p", "e", "r", "m", "i", "s", "s", "i", "o", "n", " ", "d", "e", "n", "i",
      "e", "d" >> }

\* the texts os.Create and WriteString can give for a target they cannot
\* write: "open .env: permission denied", "open .env: is a directory",
\* "write .env: no space left on device"
OsWriteErrors ==
  { << "o", "p", "e", "n", " ", ".", "e", "n", "v", ":", " ", "p", "e", "r", "m", "i", "s",
      "s", "i", "o", "n", " ", "d", "e", "n", "i", "e", "d" >>,
    << "o", "p", "e", "n", " ", ".", "e", "n", "v", ":", " ", "i", "s", " ", "a", " ", "d",
      "i", "r", "e", "c", "t", "o", "r", "y" >>,
    << "w", "r", "i", "t", "e", " ", ".", "e", "n", "v", ":", " ", "n", "o", " ", "s", "p",
      "a", "c", "e", " ", "l", "e", "f", "t", " ", "o", "n", " ", "d", "e", "v", "i", "c",
      "e" >> }

\* the texts fm.err.Error() can have for the error value e, one per cause the
\* operating system can report and per key named
ErrorTexts(e, keys) ==
  IF e = ErrTemplateRead
  THEN {TextTemplateReadPrefix \o c \o TextTemplateReadSuffix : c \in OsTemplateErrors}
  ELSE IF e = ErrTemplateEmpty THEN {TextTemplateEmpty}
  ELSE IF e = ErrCast THEN {TextCastPrefix \o k \o TextCastSuffix : k \in keys}
  ELSE IF e = ErrWrite THEN {TextWritePrefix \o c : c \in OsWriteErrors}
  ELSE { }

\* strings.Contains
Contains(s, substr) ==
  \E i \in 1..(Len(s) - Len(substr) + 1) : SubSeq(s, i, i + Len(substr) - 1) = substr

\* the two texts main looks for in fm.err.Error()

\* ".env.example file not found"
TextFileNotFound ==
  << ".", "e", "n", "v", ".", "e", "x", "a", "m", "p", "l", "e", " ", "f", "i", "l", "e",
    " ", "n", "o", "t", " ", "f", "o", "u", "n", "d" >>

\* "No environment variables found"
TextNoVariablesFound ==
  << "N", "o", " ", "e", "n", "v", "i", "r", "o", "n", "m", "e", "n", "t", " ", "v", "a",
    "r", "i", "a", "b", "l", "e", "s", " ", "f", "o", "u", "n", "d" >>

\* the exit status of main for a final model whose err renders as text (the
\* empty sequence stands for fm.err == nil): os.Exit(1) when the text contains
\* one of the two texts looked for, else the return from main, status 0.  The
\* run of the tea program itself is taken to return no error
ExitStatus(e, text) ==
  IF e # NoErr /\ (Contains(text, TextFileNotFound) \/ Contains(text, TextNoVariablesFound))
  THEN 1
  ELSE 0

\* the exit statuses main can end with for the final model in the current
\* state
main ==
  IF err = NoErr THEN {ExitStatus(err, EmptyStr)}
  ELSE {ExitStatus(err, text) : text \in ErrorTexts(err, {envVars[i].Key : i \in 1..Len(envVars)})}

\* ------------------------------------------------------------- the diff loop on its own
\* at most this many keys in a key order handed to the diff loop
MaxOrderLen == 2

DiffKeys == { <<"A">>, <<"B">> }

DiffValues == { EmptyStr, <<"1">>, <<"2">> }

\* the maps with keys among DiffKeys and values among DiffValues
DiffMaps == UNION {[D -> DiffValues] : D \in SUBSET DiffKeys}

InitDiff ==
  /\ InitModel
  /\ fs = [p \in Paths |-> Absent]
  /\ fs0 = fs
  /\ envOutputFilePath = EnvPath
  /\ \E o \in DiffMaps, n \in DiffMaps, ord \in SeqUpTo(DiffKeys, MaxOrderLen) :
       diffIn = <<[old |-> o, new |-> n, order |-> ord]>>
  /\ diffOut = << >>
  /\ codecIn = << >>
  /\ codecOut = << >>

\* run the diff loop of prepareForConfirmation on the input
RunDiff ==
  /\ diffIn # << >>
  /\ diffOut = << >>
  /\ diffOut' = <<computeChanges(diffIn[1].old, diffIn[1].new, diffIn[1].order,
                                 Len(diffIn[1].order))>>
  /\ UNCHANGED <<diffIn, codecIn, codecOut, pc, modelVars, lastCmd, lastMsg, fileVars, fixedVars>>

NextDiff == RunDiff

SpecDiff == InitDiff /\ [][NextDiff]_vars

\* ------------------------------------------------------------- the codec on its own
\* at most this many characters in a value handed to the encoder
MaxEncLen == 3

\* at most this many characters in the value part of a line handed to the decoders
MaxDecLen == 4

\* the characters of the values encoded: a letter, the tab, and the nine
\* characters writeEnvFile quotes for
EncChars == {"a", "\t", " ", "#", "=", "\"", "$", "\\", BackQuote, "\n", "\r"}

\* the values of at most n characters
EncValues(n) == SeqUpTo(EncChars, n)

EncKey == <<"K">>

\* the lines decoded: optional leading blank, optional key, optional "="
\* (bare or with blanks around it), a value part, optional trailing comment
DecChars == {"1", "\"", "\\", "#"}

\* the value parts of at most n characters
DecValues(n) == SeqUpTo(DecChars, n)

DecLines(n) ==
  { lead \o key \o sep \o v \o c :
      lead \in {EmptyStr, <<" ">>}, key \in {EmptyStr, <<"A">>},
      sep \in {EmptyStr, <<"=">>, <<" ", "=", " ">>}, v \in DecValues(n),
      c \in {EmptyStr, <<" ", "#", " ", "d">>} }

\* the lines of the files of two and three lines decoded
PairLines ==
  { <<"A", "=", "1">>, <<"A", "=", "2">>, <<"B", "=">>, <<"#", "x">>, <<"A">> }

\* the files decoded, each as the sequence of its lines
DecInputs(n) ==
  {<< >>} \cup {<<l>> : l \in DecLines(n)} \cup [1..2 -> PairLines] \cup [1..3 -> PairLines]

\* the maps written and the prior contents of the target
WriteValues == { EmptyStr, <<"1">>, <<"x", " ", "y">> }

WriteMaps == UNION {[D -> WriteValues] : D \in SUBSET {<<"A">>, <<"B">>}}

WritePriors == {Absent, File(<<"C", "=", "3", "\n", "A", "=", "0", "\n">>)}

\* one input of the codec, and the output record before any function has run
CodecJob(op, value, lines, prior, values) ==
  [op |-> op, key |-> EncKey, value |-> value, lines |-> lines, prior |-> prior,
   values |-> values]

NoOut ==
  [line |-> EmptyStr, decoded |-> EmptyMap, tplDone |-> FALSE, tpl |-> << >>,
   exDone |-> FALSE, ex |-> EmptyMap, written |-> Absent, werr |-> FALSE]

CodecJobs(maxEnc, maxDec) ==
  {CodecJob("encode", v, << >>, Absent, EmptyMap) : v \in EncValues(maxEnc)}
    \cup {CodecJob("decode", EmptyStr, ls, Absent, EmptyMap) : ls \in DecInputs(maxDec)}
    \cup {CodecJob("write", EmptyStr, << >>, p, m) : p \in WritePriors, m \in WriteMaps}

InitCodec ==
  /\ InitModel
  /\ fs = [p \in Paths |-> Absent]
  /\ fs0 = fs
  /\ envOutputFilePath = EnvPath
  /\ diffIn = << >>
  /\ diffOut = << >>
  /\ \E j \in CodecJobs(MaxEncLen, MaxDecLen) : codecIn = <<j>>
  /\ codecOut = << >>

\* the output so far
CodecOutSoFar == IF codecOut = << >> THEN NoOut ELSE codecOut[1]

\* writeEnvFile's line for the key and value, then readExistingEnvFile on a
\* file made of that line
RunEncode ==
  /\ codecIn[1].op = "encode"
  /\ codecOut = << >>
  /\ LET line == EncodeLine(codecIn[1].key, codecIn[1].value)
     IN codecOut' = <<[NoOut EXCEPT !.line = line,
                                    !.decoded = readExistingEnvFile(File(line), FALSE).values]>>
  /\ UNCHANGED <<codecIn, diffIn, diffOut, pc, modelVars, lastCmd, lastMsg, fileVars, fixedVars>>

\* readEnvVarsFromFile on a file made of the lines
RunTemplate ==
  /\ codecIn[1].op = "decode"
  /\ ~CodecOutSoFar.tplDone
  /\ codecOut' = <<[CodecOutSoFar EXCEPT
                      !.tplDone = TRUE,
                      !.tpl = readEnvVarsFromFile(File(JoinLines(codecIn[1].lines))).envVars]>>
  /\ UNCHANGED <<codecIn, diffIn, diffOut, pc, modelVars, lastCmd, lastMsg, fileVars, fixedVars>>

\* readExistingEnvFile on a file made of the lines
RunExisting ==
  /\ codecIn[1].op = "decode"
  /\ ~CodecOutSoFar.exDone
  /\ codecOut' = <<[CodecOutSoFar EXCEPT
                      !.exDone = TRUE,
                      !.ex = readExistingEnvFile(File(JoinLines(codecIn[1].lines)), FALSE).values]>>
  /\ UNCHANGED <<codecIn, diffIn, diffOut, pc, modelVars, lastCmd, lastMsg, fileVars, fixedVars>>

\* writeEnvFile of the map over the prior target, in any order of the range
\* loop, with or without a failure
RunWrite ==
  /\ codecIn[1].op = "write"
  /\ codecOut = << >>
  /\ \E order \in KeyOrders(codecIn[1].values),
        failAt \in 0..(Cardinality(DOMAIN codecIn[1].values) + 1) :
       LET fsys == [p \in Paths |-> IF p = EnvPath THEN codecIn[1].prior ELSE Absent]
           w == writeEnvFile(fsys, EnvPath, codecIn[1].values, order, failAt)
       IN codecOut' = <<[NoOut EXCEPT !.written = w.fs[EnvPath], !.werr = w.err]>>
  /\ UNCHANGED <<codecIn, diffIn, diffOut, pc, modelVars, lastCmd, lastMsg, fileVars, fixedVars>>

NextCodec ==
  \/ RunEncode
  \/ RunTemplate
  \/ RunExisting
  \/ RunWrite

SpecCodec == InitCodec /\ [][NextCodec]_vars

\* ------------------------------------------------------------- a second run
\* the values the first run committed: empty, plain, a tab alone, and a
\* backslash with a double quote
RerunValues ==
  { EmptyStr, <<"1">>, <<"\t">>, <<"a", "\\", "\"">> }

\* the templates run twice: one key with a default, one key without, both,
\* and one key declared twice
RerunTemplates ==
  { File(JoinLines(ls)) :
      ls \in { << <<"A", "=", "1">> >>,
               << <<"B", " ", "#", " ", "d">> >>,
               << <<"A", "=", "1">>, <<"B", " ", "#", " ", "d">> >>,
               << <<"A", "=", "1">>, <<"A", "=", "1">> >> } }

\* the keys a template file declares
DeclaredKeys(t) ==
  LET vs == readEnvVarsFromFile(t).envVars
  IN {vs[i].Key : i \in 1..Len(vs)}

\* the state in which the program is started again: .env is the file a first
\* run over the same template, started without .env and .env.old, wrote
\* without error for the values it collected
InitRerun ==
  /\ InitModel
  /\ \E t \in RerunTemplates :
       \E m \in [DeclaredKeys(t) -> RerunValues] :
         \E order \in KeyOrders(m) :
           LET before == [p \in Paths |-> IF p = EnvExamplePath THEN t ELSE Absent]
           IN fs = writeEnvFile(before, EnvPath, m, order, Len(order) + 1).fs
  /\ fs0 = fs
  /\ envOutputFilePath = EnvPath
  /\ diffIn = << >>
  /\ diffOut = << >>
  /\ codecIn = << >>
  /\ codecOut = << >>

SpecRerun == InitRerun /\ [][Next]_vars

\* ------------------------------------------------------------- the test harness
\* the path the tests give envOutputFilePath
OtherPath == "test_output.env"

HarnessPaths == Paths \cup {OtherPath}

\* the files the tests prepare: a template of two keys or of one, no .env or
\* one line, no file at the other path or one line
HarnessTemplates ==
  { File(JoinLines(<< <<"A", "=", "1">>, <<"B", " ", "#", " ", "d">> >>)),
    File(JoinLines(<< <<"A", "=", "1">> >>)) }

HarnessEnvFiles == { Absent, File(<<"A", "=", "0", "\n">>) }

HarnessOtherFiles == { Absent, File(<<"C", "=", "3", "\n">>) }

\* the state in which a test calls Init: the files are in place and
\* envOutputFilePath has been assigned
InitHarness ==
  /\ InitModel
  /\ \E t \in HarnessTemplates, e \in HarnessEnvFiles, o \in EnvOldFiles,
        x \in HarnessOtherFiles :
       fs = [p \in HarnessPaths |-> IF p = EnvExamplePath THEN t
                                    ELSE IF p = EnvPath THEN e
                                    ELSE IF p = EnvOldPath THEN o ELSE x]
  /\ fs0 = fs
  /\ envOutputFilePath \in {EnvPath, OtherPath}
  /\ diffIn = << >>
  /\ diffOut = << >>
  /\ codecIn = << >>
  /\ codecOut = << >>

\* the test replaces a field by one that is not a huh.Input, right after Init
CorruptField ==
  /\ pc = "running"
  /\ lastCmd = "formInit"
  /\ \E i \in 1..Len(fields) :
       /\ fields[i].isInput
       /\ fields' = [fields EXCEPT ![i].isInput = FALSE]
  /\ UNCHANGED <<envVars, existingEnvValues, form, width, height, quitting, err, confirming,
                 confirmForm, envValuesToSave, applyChanges, diffSummary>>
  /\ UNCHANGED <<pc, lastCmd, lastMsg, fileVars, fixedVars, probeVars>>

NextHarness ==
  \/ Next
  \/ CorruptField

SpecHarness == InitHarness /\ [][NextHarness]_vars

\* ------------------------------------------------------------- properties
\* the keys the template declares
TemplateKeys == {envVars[i].Key : i \in 1..Len(envVars)}

\* the value the form holds for key k: that of the last field titled k
FormValue(k) ==
  LET idx == {i \in 1..Len(envVars) : envVars[i].Key = k}
  IN fields[CHOOSE i \in idx : \A j \in idx : j <= i].value

\* the map the form holds
FormMap == [k \in TemplateKeys |-> FormValue(k)]

\* the three kinds of change record, as they are rendered
Added(k, new) ==
  IF new = EmptyStr THEN Sprintf("+ Added: %s=\"\"", <<k>>)
  ELSE Sprintf("+ Added: %s=\"%s\"", <<k, new>>)

Cleared(k, old) == Sprintf("~ Cleared: %s (was \"%s\")", <<k, old>>)

Changed(k, old, new) == Sprintf("~ Changed: %s: \"%s\" -> \"%s\"", <<k, old, new>>)

\* the change records (zero or one) the diff rules give for key k
ExpectedRecord(old, k, new) ==
  IF k \notin DOMAIN old THEN <<Added(k, new)>>
  ELSE IF old[k] = new THEN << >>
  ELSE IF new = EmptyStr THEN <<Cleared(k, old[k])>>
  ELSE <<Changed(k, old[k], new)>>

\* the change records of the first n template keys, in declaration order
RECURSIVE ExpectedChanges(_)
ExpectedChanges(n) ==
  IF n = 0 THEN << >>
  ELSE ExpectedChanges(n - 1)
         \o ExpectedRecord(existingEnvValues, envVars[n].Key, FormValue(envVars[n].Key))

\* no file has been touched since the invocation
FilesUntouched == fs = fs0 /\ ioLog = << >>

\* the main form has completed and its values were collected
FormCompleted == pc = "running" /\ form = "completed" /\ err # ErrCast

\* C1: as long as the confirm form has not completed with an affirmative
\* answer, .env and .env.old are what they were before the invocation and no
\* file mutation has been performed
C1_NoMutationBeforeConfirm ==
  ~(confirmForm = "completed" /\ applyChanges)
    => fs[EnvPath] = fs0[EnvPath] /\ fs[EnvOldPath] = fs0[EnvOldPath] /\ ioLog = << >>

\* C1 witness: the workflow went through Init, edits and prepareForConfirmation
\* and waits for the answer, with an existing .env and .env.old on disk
C1_Witness ==
  /\ confirming /\ confirmForm = "normal" /\ ~quitting
  /\ fs0[EnvPath].kind = "file" /\ fs0[EnvOldPath].kind = "file"
  /\ \E i \in 1..Len(fields) : fields[i].value = <<"x", " ", "y">>

\* C2: every mutation of the backup file precedes every mutation of the
\* target, and after a successful backup .env.old holds the bytes .env had
\* before the write
C2_BackupBeforeWrite ==
  /\ \A i, j \in 1..Len(ioLog) :
       (ioLog[i].path = EnvOldPath /\ ioLog[j].path = EnvPath) => i < j
  /\ (\E i \in 1..Len(ioLog) : ioLog[i].op = "backedUp")
       => fs0[EnvPath].kind = "file" /\ fs[EnvOldPath] = File(fs0[EnvPath].data)

\* C2 witness: a commit backed up a non-empty .env and then rewrote it
C2_Witness ==
  /\ \E i \in 1..Len(ioLog) : ioLog[i].op = "backedUp"
  /\ fs0[EnvPath].data # EmptyStr
  /\ fs[EnvPath].kind = "file" /\ fs[EnvPath] # fs0[EnvPath]

\* C3: a confirm form completed with a negative answer, or aborted, leaves the
\* workflow quitting without error and without any file mutation
C3_DeclineWritesNothing ==
  ((confirmForm = "completed" /\ ~applyChanges) \/ confirmForm = "aborted")
    => quitting /\ err = NoErr /\ FilesUntouched

\* C3 witness: the user declined changes over an existing .env
C3_Witness ==
  /\ confirmForm = "completed" /\ ~applyChanges
  /\ fs0[EnvPath].kind = "file" /\ envValuesToSave # EmptyMap

\* C4: after ctrl+c during collection, or after the main form aborted, the
\* workflow is quitting, no diff was computed, the confirmation phase was not
\* entered and no file was touched
C4_CancelDuringCollection ==
  ((lastMsg = "ctrl+c" /\ ~confirming) \/ form = "aborted")
    => /\ quitting /\ err = NoErr /\ ~confirming /\ confirmForm = "nil"
       /\ diffSummary = << >> /\ envValuesToSave = EmptyMap
       /\ FilesUntouched

\* C4 witness: ctrl+c arrived after the user had typed a value
C4_Witness ==
  /\ lastMsg = "ctrl+c" /\ ~confirming /\ form = "normal"
  /\ fs0[EnvPath].kind = "file"
  /\ \E i \in 1..Len(fields) : fields[i].value = <<"x", " ", "y">>

\* C5: when the main form completes and every template key is present in the
\* existing values with the value the form holds, the workflow quits at once
\* with the no-change message, without confirmation, backup or write
C5_NoChangeQuits ==
  (FormCompleted /\ \A k \in TemplateKeys :
                      k \in DOMAIN existingEnvValues /\ existingEnvValues[k] = FormValue(k))
    => /\ quitting /\ err = NoErr /\ ~confirming /\ confirmForm = "nil"
       /\ diffSummary = NoChangesMsg
       /\ FilesUntouched

\* C5 witness: a two-key template completed with nothing to change
C5_Witness ==
  /\ FormCompleted /\ quitting /\ diffSummary = NoChangesMsg
  /\ Cardinality(TemplateKeys) = 2

\* the key/value pairs a .env entry decodes to
Decoded(f) == readExistingEnvFile(f, FALSE).values

\* the user left every field titled k as Init prefilled it (or k has no field)
NotEdited(k) ==
  \A i \in 1..Len(envVars) :
    envVars[i].Key = k => fields[i].value = InitialValue(envVars[i], existingEnvValues)

\* C6: after a run that commits, every key/value pair of the prior .env that
\* the user did not edit in the form is present, with the same value, in the
\* newly written .env
C6_ExistingSettingsKept ==
  (confirmForm = "completed" /\ applyChanges /\ err = NoErr)
    => \A k \in DOMAIN Decoded(fs0[EnvPath]) :
         NotEdited(k) => /\ k \in DOMAIN Decoded(fs[EnvPath])
                         /\ Decoded(fs[EnvPath])[k] = Decoded(fs0[EnvPath])[k]

\* the keys of the change records held in diffSummary
RecordKeys == {diffSummary[i].args[1] : i \in {j \in 1..Len(diffSummary) : diffSummary[j].args # << >>}}

\* C7 (as stated): the keys of existingEnvValues, of envValuesToSave and of
\* every change record are template keys
C7_AllKeysFromTemplate ==
  pc = "running" =>
    /\ DOMAIN existingEnvValues \subseteq TemplateKeys
    /\ DOMAIN envValuesToSave \subseteq TemplateKeys
    /\ RecordKeys \subseteq TemplateKeys

\* C7 (amended): the keys of envValuesToSave and of every change record are
\* template keys; existingEnvValues is not bounded by the template
C7_SavedKeysFromTemplate ==
  pc = "running" =>
    /\ DOMAIN envValuesToSave \subseteq TemplateKeys
    /\ RecordKeys \subseteq TemplateKeys

\* C7 witness: values were collected and diffed while the existing values hold
\* a key the template does not declare
C7_Witness ==
  /\ confirming /\ envValuesToSave # EmptyMap /\ RecordKeys # {}
  /\ ~(DOMAIN existingEnvValues \subseteq TemplateKeys)

DiffRan == diffIn # << >> /\ diffOut # << >>

C10_ConfirmingIffChanged ==
  [][ /\ (~confirming /\ confirming') => (form # "completed" /\ form' = "completed")
      /\ (form # "completed" /\ form' = "completed" /\ err' # ErrCast)
           => (confirming' <=> ExpectedChanges(Len(envVars))' # << >>)
      /\ confirming' => /\ confirmForm' # "nil"
                        /\ diffSummary' = ExpectedChanges(Len(envVars))'
                        /\ diffSummary' # << >>
                        /\ envValuesToSave' = FormMap'
    ]_vars

\* C10 witness: the confirmation phase was entered with two collected values
C10_Witness ==
  /\ confirming /\ confirmForm = "normal" /\ ~quitting
  /\ Cardinality(DOMAIN envValuesToSave) = 2 /\ envValuesToSave = FormMap

\* C11: from a terminal state (quitting set, or err set) every step leaves the
\* workflow state and the files unchanged, stays terminal and returns the quit
\* command; and every step that ends in a terminal state returns the quit
\* command
C11_TerminalAbsorbing ==
  [][ /\ (pc = "running" /\ Terminal)
           => /\ Terminal'
              /\ modelVars' = modelVars
              /\ fs' = fs
              /\ ioLog' = ioLog
              /\ lastCmd' = "quit"
      /\ Terminal' => lastCmd' = "quit"
    ]_vars

\* C11 witness: the terminal state after a commit, the confirm form still
\* completed with a yes, where a further message meets the early return
C11_Witness ==
  /\ pc = "running" /\ Terminal /\ quitting /\ lastCmd = "quit"
  /\ confirming /\ confirmForm = "completed" /\ applyChanges
  /\ ioLog # << >> /\ fs # fs0

\* the number of logged events with the given operation on the given path
CountEv(op, path) ==
  Cardinality({i \in 1..Len(ioLog) : ioLog[i].op = op /\ ioLog[i].path = path})

\* C12: the files are touched only by a commit (confirm form completed with a
\* yes); over the whole run the backup file is created at most once, the
\* target is created at most once, and no backup event follows a target event
C12_OneBackupOneWrite ==
  /\ (ioLog # << >> \/ fs # fs0)
       => (confirming /\ confirmForm = "completed" /\ applyChanges /\ quitting)
  /\ CountEv("create", EnvOldPath) <= 1
  /\ CountEv("backedUp", EnvOldPath) + CountEv("backupFailed", EnvOldPath) <= 1
  /\ CountEv("create", EnvPath) <= 1
  /\ \A i, j \in 1..Len(ioLog) :
       (ioLog[i].path = EnvPath /\ ioLog[j].path = EnvOldPath) => j < i

\* C12 witness: a finished run that made one backup and then one write
C12_Witness ==
  /\ pc = "running" /\ quitting /\ confirmForm = "completed" /\ applyChanges
  /\ CountEv("create", EnvOldPath) = 1 /\ CountEv("backedUp", EnvOldPath) = 1
  /\ CountEv("create", EnvPath) = 1 /\ CountEv("write", EnvPath) = 2

\* the commit step has run
Committed == pc = "running" /\ confirmForm = "completed" /\ applyChanges

\* the complete new contents of the target, one per order of the range loop
NewContents ==
  {File(EncodeLines(envValuesToSave, o, Len(o))) : o \in KeyOrders(envValuesToSave)}

\* C13 (as stated): after the commit step, ended with or without a write
\* error, the target holds its complete prior content or the complete new
\* content
C13_NoPartialTarget ==
  Committed => (fs[EnvPath] = fs0[EnvPath] \/ fs[EnvPath] \in NewContents)

\* the commit printed the backup warning
BackupFailed == \E i \in 1..Len(ioLog) : ioLog[i].op = "backupFailed"

\* writeEnvFile was called on the target
WriteAttempted ==
  \E i \in 1..Len(ioLog) :
    ioLog[i].path = EnvPath /\ ioLog[i].op \in {"create", "createFailed"}

\* writeEnvFile wrote every line
WriteSucceeded ==
  /\ CountEv("create", EnvPath) = 1
  /\ CountEv("write", EnvPath) = Cardinality(DOMAIN envValuesToSave)

\* C14: a failed backup does not block the write: the write is attempted
\* after it, and when the write succeeds no error is recorded and the target
\* holds the new values
C14_BackupFailureAbsorbed ==
  BackupFailed =>
    /\ WriteAttempted
    /\ WriteSucceeded => (err = NoErr /\ fs[EnvPath] \in NewContents)

\* C14 witness: the backup copy broke half way, and the write went through
C14_Witness ==
  /\ Committed /\ BackupFailed /\ WriteSucceeded /\ err = NoErr
  /\ fs[EnvOldPath] # fs0[EnvOldPath] /\ fs[EnvOldPath] # fs0[EnvPath]
  /\ Cardinality(DOMAIN envValuesToSave) = 2

\* the commit printed the backup success message
BackedUp == \E i \in 1..Len(ioLog) : ioLog[i].op = "backedUp"

\* writeEnvFile returned an error: os.Create failed, or a line was not written
WriteFailed ==
  \/ CountEv("createFailed", EnvPath) = 1
  \/ /\ CountEv("create", EnvPath) = 1
     /\ CountEv("write", EnvPath) < Cardinality(DOMAIN envValuesToSave)

\* C15: when the write fails the workflow ends failed, with the write error
\* recorded and quitting set, and a backup made earlier in the same commit
\* still holds the bytes of the prior .env
C15_WriteFailureRecorded ==
  /\ (Committed /\ WriteFailed)
       => /\ err = ErrWrite
          /\ quitting
          /\ lastCmd = "quit"
          /\ BackedUp => fs[EnvOldPath] = File(fs0[EnvPath].data)
  /\ err = ErrWrite => (Committed /\ WriteFailed)

\* C15 witness: the backup succeeded, the second line of the write failed
C15_Witness ==
  /\ Committed /\ err = ErrWrite /\ quitting /\ BackedUp
  /\ CountEv("create", EnvPath) = 1 /\ CountEv("write", EnvPath) = 1
  /\ fs[EnvOldPath] = fs0[EnvPath] /\ fs[EnvOldPath] # fs0[EnvOldPath]

\* the run did nothing to the backup path
NoBackupActivity ==
  /\ \A i \in 1..Len(ioLog) : ioLog[i].path # EnvOldPath
  /\ fs[EnvOldPath] = fs0[EnvOldPath]

\* C16: with no target before the commit the run creates no backup, and a
\* write that succeeds leaves exactly the new values in the target; with a
\* directory at the target path the backup is skipped and the write is still
\* attempted
C16_NoTargetNoBackup ==
  /\ fs0[EnvPath].kind = "absent"
       => /\ NoBackupActivity
          /\ (Committed /\ WriteSucceeded) => (err = NoErr /\ fs[EnvPath] \in NewContents)
  /\ fs0[EnvPath].kind = "dir"
       => /\ NoBackupActivity
          /\ Committed => WriteAttempted

\* C16 witness: a first run, no .env and no .env.old before it, two values
\* written and still no .env.old after it
C16_Witness ==
  /\ Committed /\ fs0[EnvPath] = Absent /\ fs0[EnvOldPath] = Absent
  /\ WriteSucceeded /\ err = NoErr /\ fs[EnvOldPath] = Absent
  /\ fs[EnvPath] \in NewContents /\ Cardinality(DOMAIN envValuesToSave) = 2

\* Init has built the form and no message has arrived yet
JustInitialized == pc = "running" /\ lastCmd = "formInit"

\* C17: the initial value of each field is the existing persisted value when
\* the key is present there with a non-empty value, otherwise the template
\* default when that is non-empty, otherwise the empty string
C17_PrefillPriority ==
  JustInitialized =>
    /\ Len(fields) = Len(envVars)
    /\ \A i \in 1..Len(envVars) :
         LET k == envVars[i].Key
         IN fields[i].value =
              IF k \in DOMAIN existingEnvValues /\ existingEnvValues[k] # EmptyStr
              THEN existingEnvValues[k]
              ELSE IF envVars[i].ExampleValue # EmptyStr
              THEN envVars[i].ExampleValue
              ELSE EmptyStr

\* C17 witness: the persisted A=0 wins over the template default A=1, and B,
\* persisted empty and without a default, starts empty
C17_Witness ==
  /\ JustInitialized /\ Len(envVars) = 2
  /\ envVars[1].Key = <<"A">> /\ envVars[1].ExampleValue = <<"1">>
  /\ existingEnvValues = (<<"A">> :> <<"0">>) @@ (<<"B">> :> EmptyStr)
  /\ fields[1].value = <<"0">>
  /\ envVars[2].Key = <<"B">> /\ envVars[2].ExampleValue = EmptyStr
  /\ fields[2].value = EmptyStr

\* the template file cannot be opened
TemplateUnreadable == fs0[EnvExamplePath].kind # "file"

\* the template file opens and declares no variable
TemplateWithoutFields ==
  /\ fs0[EnvExamplePath].kind = "file"
  /\ TemplateFields(ScanLines(fs0[EnvExamplePath].data)) = << >>

\* C18: after Init on a template that cannot be read, or that declares no
\* variable, err is set and the quit command returned; no field and no form
\* is built, the existing configuration is not read into the model, and in no
\* later state has collection or confirmation started or a file been touched
C18_TemplateFailureIsTerminal ==
  pc = "running" =>
    /\ TemplateUnreadable => err = ErrTemplateRead
    /\ TemplateWithoutFields => err = ErrTemplateEmpty
    /\ err \in {ErrTemplateRead, ErrTemplateEmpty}
         => /\ TemplateUnreadable \/ TemplateWithoutFields
            /\ lastCmd = "quit"
            /\ envVars = << >> /\ fields = << >> /\ form = "nil"
            /\ existingEnvValues = EmptyMap
            /\ ~confirming /\ confirmForm = "nil" /\ envValuesToSave = EmptyMap
            /\ FilesUntouched

\* C18 witness: an empty template next to a .env that holds two pairs
C18_Witness ==
  /\ pc = "running" /\ TemplateWithoutFields /\ err = ErrTemplateEmpty /\ lastCmd = "quit"
  /\ fs0[EnvPath].kind = "file" /\ Cardinality(DOMAIN Decoded(fs0[EnvPath])) = 2
  /\ existingEnvValues = EmptyMap /\ fields = << >>

\* there is no .env to read, or reading it fails (a directory is in its place)
ExistingUnavailable == fs0[EnvPath].kind \in {"absent", "dir"}

\* C19: with a usable template and a .env that is missing or cannot be read,
\* Init records no error and starts collection with an empty prior map: every
\* field is prefilled with its template default, and at form completion every
\* template key is diffed as Added
C19_MissingExistingAbsorbed ==
  (pc = "running" /\ ExistingUnavailable /\ ~TemplateUnreadable /\ ~TemplateWithoutFields)
    => /\ existingEnvValues = EmptyMap
       /\ err \in {NoErr, ErrWrite}
       /\ form # "nil" /\ Len(fields) = Len(envVars)
       /\ JustInitialized
            => /\ err = NoErr /\ form = "normal" /\ ~quitting
               /\ \A i \in 1..Len(envVars) : fields[i].value = envVars[i].ExampleValue
       /\ FormCompleted
            => /\ confirming
               /\ Len(diffSummary) = Len(envVars)
               /\ \A i \in 1..Len(envVars) :
                    diffSummary[i] = Added(envVars[i].Key, FormValue(envVars[i].Key))

\* C19 witness: a directory in the place of .env, the form completed with the
\* two prefilled template values, both diffed as Added
C19_Witness ==
  /\ FormCompleted /\ fs0[EnvPath] = Dir /\ existingEnvValues = EmptyMap /\ err = NoErr
  /\ Len(envVars) = 2 /\ confirming
  /\ diffSummary = <<Added(<<"A">>, <<"1">>), Added(<<"B">>, EmptyStr)>>

\* C20 (as stated): the process exits non-zero when, and only when, the
\* template failed to load (unreadable, or without fields); every other
\* finished run exits 0
C20_ExitNonZeroIffTemplateFailed ==
  (pc = "running" /\ Terminal)
    => IF TemplateUnreadable \/ TemplateWithoutFields
       THEN \A status \in main : status # 0
       ELSE main = {0}

\* the encoder has run on its input and the result has been decoded
EncodeDone == codecIn # << >> /\ codecIn[1].op = "encode" /\ codecOut # << >>

\* the nine characters the encoding rules name
DisallowedChars == {" ", "#", "=", "\"", "$", "\\", BackQuote, "\n", "\r"}

\* the value is not empty and holds none of the nine characters
PlainValue(v) == v # EmptyStr /\ \A i \in 1..Len(v) : v[i] \notin DisallowedChars

\* C21 (as stated): for a non-empty value with none of the nine characters,
\* tabs allowed in any position, decoding the emitted line returns exactly the
\* key and the value
C21_RoundTripPlain ==
  (EncodeDone /\ PlainValue(codecIn[1].value))
    => codecOut[1].decoded = (codecIn[1].key :> codecIn[1].value)

\* the text the encoder put between "key=" and the line terminator
EmittedValue ==
  SubSeq(codecOut[1].line, Len(codecIn[1].key) + 2, Len(codecOut[1].line) - 1)

\* C22: the emitted line starts with the key and "="; the value is emitted
\* between double quotes exactly when it is empty or holds one of the nine
\* characters, and verbatim otherwise
C22_QuotedIffNeeded ==
  EncodeDone =>
    LET v == codecIn[1].value
        k == codecIn[1].key
    IN /\ SubSeq(codecOut[1].line, 1, Len(k) + 1) = k \o <<"=">>
       /\ IF v = EmptyStr \/ \E i \in 1..Len(v) : v[i] \in DisallowedChars
          THEN /\ Len(EmittedValue) >= 2
               /\ EmittedValue[1] = "\""
               /\ EmittedValue[Len(EmittedValue)] = "\""
          ELSE EmittedValue = v

\* C22 witness: a value made of a letter, a dollar sign and a tab is quoted
C22_Witness ==
  /\ EncodeDone /\ codecIn[1].value = <<"a", "$", "\t">>
  /\ EmittedValue = <<"\"", "a", "$", "\t", "\"">>

\* the escape of one character: a backslash before a backslash or a double
\* quote, the two characters \n for a newline and \r for a carriage return
EscapeChar(c) ==
  IF c = "\\" THEN <<"\\", "\\">>
  ELSE IF c = "\"" THEN <<"\\", "\"">>
  ELSE IF c = "\n" THEN <<"\\", "n">>
  ELSE IF c = "\r" THEN <<"\\", "r">>
  ELSE <<c>>

\* every character of v escaped once
RECURSIVE EscapedOnce(_)
EscapedOnce(v) ==
  IF v = EmptyStr THEN EmptyStr ELSE EscapeChar(Head(v)) \o EscapedOnce(Tail(v))

\* C23: a quoted value is emitted with every character escaped exactly once
\* (no backslash inserted by a substitution is escaped again); the emitted
\* entry holds no raw newline or carriage return before its terminator, and is
\* exactly one line, key=value, ended by a single newline
C23_EscapedOnceOneLine ==
  EncodeDone =>
    LET v == codecIn[1].value
        line == codecOut[1].line
    IN /\ (v = EmptyStr \/ \E i \in 1..Len(v) : v[i] \in DisallowedChars)
            => EmittedValue = <<"\"">> \o EscapedOnce(v) \o <<"\"">>
       /\ line[Len(line)] = "\n"
       /\ \A i \in 1..(Len(line) - 1) : line[i] \notin {"\n", "\r"}
       /\ ScanLines(line) = <<codecIn[1].key \o <<"=">> \o EmittedValue>>

\* C23 witness: a backslash, a double quote and a newline, each escaped once
C23_Witness ==
  /\ EncodeDone /\ codecIn[1].value = <<"\\", "\"", "\n">>
  /\ EmittedValue = <<"\"", "\\", "\\", "\\", "\"", "\\", "n", "\"">>

\* writeEnvFile has run on its input
WriteDone == codecIn # << >> /\ codecIn[1].op = "write" /\ codecOut # << >>

\* C24: after a write without error the target is a file made of exactly one
\* line per key of the map: as many lines as keys, for every key exactly one
\* line, that of the key and its value, and every byte of the file belongs to
\* these lines, so nothing of the previous target is left
C24_OneLinePerKey ==
  (WriteDone /\ ~codecOut[1].werr) =>
    LET m == codecIn[1].values
        data == codecOut[1].written.data
        lines == ScanLines(data)
    IN /\ codecOut[1].written.kind = "file"
       /\ Len(lines) = Cardinality(DOMAIN m)
       /\ JoinLines(lines) = data
       /\ \A k \in DOMAIN m :
            /\ Cardinality({i \in 1..Len(lines) :
                              SubSeq(lines[i], 1, Len(k) + 1) = k \o <<"=">>}) = 1
            /\ \E i \in 1..Len(lines) : lines[i] \o <<"\n">> = EncodeLine(k, m[k])

\* C24 witness: two values written over a target that held C=3 and A=0
C24_Witness ==
  /\ WriteDone /\ ~codecOut[1].werr
  /\ codecIn[1].prior.kind = "file" /\ codecIn[1].prior.data # EmptyStr
  /\ codecIn[1].values = (<<"A">> :> <<"1">>) @@ (<<"B">> :> EmptyStr)
  /\ Len(ScanLines(codecOut[1].written.data)) = 2

\* readEnvVarsFromFile has run on its input
TemplateDone ==
  codecIn # << >> /\ codecIn[1].op = "decode" /\ codecOut # << >> /\ codecOut[1].tplDone

\* the text of a line before its first "#", trimmed: the key=value portion
KeyValuePortion(l) ==
  LET t == TrimSpace(l)
      h == Index(t, "#")
  IN IF h = 0 THEN t ELSE TrimSpace(SubSeq(t, 1, h - 1))

\* the key of a line: the text before the first "=" of the key=value portion,
\* trimmed (the whole portion when there is no "=")
LineKey(l) ==
  LET kv == KeyValuePortion(l)
      e == Index(kv, "=")
  IN IF e = 0 THEN kv ELSE TrimSpace(SubSeq(kv, 1, e - 1))

\* a line that must yield no field
SkippedLine(l) ==
  \/ TrimSpace(l) = EmptyStr
  \/ TrimSpace(l)[1] = "#"
  \/ LineKey(l) = EmptyStr

\* C25: readEnvVarsFromFile yields no field for a line that is blank after
\* trimming, that starts with "#" after trimming, or whose key is empty; it
\* yields one field for every other line, in the order of the lines, and
\* every field has a non-empty key
C25_TemplateSkipRules ==
  TemplateDone =>
    LET kept == SelectSeq(codecIn[1].lines, LAMBDA l : ~SkippedLine(l))
        tpl == codecOut[1].tpl
    IN /\ Len(tpl) = Len(kept)
       /\ \A i \in 1..Len(tpl) : tpl[i].Key = LineKey(kept[i]) /\ tpl[i].Key # EmptyStr

\* C25 witness: three lines, the comment line between them skipped, the fields
\* of the other two in line order
C25_Witness ==
  /\ TemplateDone
  /\ codecIn[1].lines = << <<"B", "=">>, <<"#", "x">>, <<"A", "=", "1">> >>
  /\ Len(codecOut[1].tpl) = 2
  /\ codecOut[1].tpl[1].Key = <<"B">> /\ codecOut[1].tpl[2].Key = <<"A">>

\* the description of a line: the text after its first "#", trimmed
LineDescription(l) ==
  LET t == TrimSpace(l)
      h == Index(t, "#")
  IN IF h = 0 THEN EmptyStr ELSE TrimSpace(SubSeq(t, h + 1, Len(t)))

\* the default of a line: the text after the first "=" of the key=value
\* portion, trimmed; without its quotes and with \\ then \" unescaped when it
\* has two characters or more and starts and ends with a double quote
LineDefault(l) ==
  LET kv == KeyValuePortion(l)
      e == Index(kv, "=")
      v == IF e = 0 THEN EmptyStr ELSE TrimSpace(SubSeq(kv, e + 1, Len(kv)))
  IN IF Len(v) >= 2 /\ v[1] = "\"" /\ v[Len(v)] = "\""
     THEN ReplaceAll(ReplaceAll(SubSeq(v, 2, Len(v) - 1), <<"\\", "\\">>, <<"\\">>),
                     <<"\\", "\"">>, <<"\"">>)
     ELSE v

\* C26: every field readEnvVarsFromFile yields carries as description the
\* trimmed text after the first "#" of its line, wherever that "#" lies, and
\* as default the trimmed text after the first "=" of the part before the
\* "#", unquoted and unescaped only when it is quoted, empty when there is no
\* "=" or nothing after it
C26_TemplateDescriptionAndDefault ==
  TemplateDone =>
    LET kept == SelectSeq(codecIn[1].lines, LAMBDA l : ~SkippedLine(l))
        tpl == codecOut[1].tpl
    IN /\ Len(tpl) = Len(kept)
       /\ \A i \in 1..Len(tpl) :
            /\ tpl[i].Description = LineDescription(kept[i])
            /\ tpl[i].ExampleValue = LineDefault(kept[i])

\* C26 witness: the line A="1#" # d, whose first "#" lies inside the quotes:
\* the default is the two characters "1 and the description starts at the
\* closing quote
C26_Witness ==
  /\ TemplateDone
  /\ codecIn[1].lines = << <<"A", "=", "\"", "1", "#", "\"", " ", "#", " ", "d">> >>
  /\ Len(codecOut[1].tpl) = 1
  /\ codecOut[1].tpl[1].ExampleValue = <<"\"", "1">>
  /\ codecOut[1].tpl[1].Description = <<"\"", " ", "#", " ", "d">>

\* C27 (as stated): no two entries of the field list envVars carry the same
\* key
C27_TemplateKeysUnique ==
  \A i, j \in 1..Len(envVars) : envVars[i].Key = envVars[j].Key => i = j

\* readExistingEnvFile has run on its input
ExistingDone ==
  codecIn # << >> /\ codecIn[1].op = "decode" /\ codecOut # << >> /\ codecOut[1].exDone

\* both decoders have run on one line that holds no "#"
BothDoneOnPlainLine ==
  /\ TemplateDone /\ ExistingDone
  /\ Len(codecIn[1].lines) = 1
  /\ \A i \in 1..Len(codecIn[1].lines[1]) : codecIn[1].lines[1][i] # "#"

\* C28 (as stated): on a line without "#" both decoders skip the line, or
\* both yield the same key with the same decoded value
C28_DecodersAgree ==
  BothDoneOnPlainLine =>
    LET tpl == codecOut[1].tpl
        ex == codecOut[1].ex
    IN \/ tpl = << >> /\ ex = EmptyMap
       \/ /\ Len(tpl) = 1
          /\ DOMAIN ex = {tpl[1].Key}
          /\ ex[tpl[1].Key] = tpl[1].ExampleValue

\* C28 (amended): on a line without "#" both decoders skip a blank line; on a
\* line with "=" and a non-empty key both yield the same key, with the same
\* decoded value when no white space follows the first "="; a line without
\* "=" yields a template field and no existing entry; a line with an empty
\* key yields an existing entry under the empty key and no template field
C28_DecodersAgreeOnKeyedLines ==
  BothDoneOnPlainLine =>
    LET tpl == codecOut[1].tpl
        ex == codecOut[1].ex
        t == TrimSpace(codecIn[1].lines[1])
        e == Index(t, "=")
        k == IF e = 0 THEN t ELSE TrimSpace(SubSeq(t, 1, e - 1))
    IN IF t = EmptyStr THEN tpl = << >> /\ ex = EmptyMap
       ELSE IF e = 0 THEN Len(tpl) = 1 /\ tpl[1].Key = t /\ ex = EmptyMap
       ELSE IF k = EmptyStr THEN tpl = << >> /\ DOMAIN ex = {EmptyStr}
       ELSE /\ Len(tpl) = 1 /\ tpl[1].Key = k
            /\ DOMAIN ex = {k}
            /\ (e = Len(t) \/ ~IsSpace(t[e + 1])) => ex[k] = tpl[1].ExampleValue

\* C28 witness: the line A="1", read by both decoders as key A, value 1
C28_Witness ==
  /\ BothDoneOnPlainLine
  /\ codecIn[1].lines = << <<"A", "=", "\"", "1", "\"">> >>
  /\ codecOut[1].tpl[1].Key = <<"A">> /\ codecOut[1].tpl[1].ExampleValue = <<"1">>
  /\ codecOut[1].ex = (<<"A">> :> <<"1">>)

\* a line that records an entry: not blank, not a comment, with an "="
HasEntry(l) ==
  LET t == TrimSpace(l)
  IN t # EmptyStr /\ t[1] # "#" /\ Index(t, "=") # 0

\* the key of the entry: the text before the first "=", trimmed
EntryKey(l) ==
  LET t == TrimSpace(l)
  IN TrimSpace(SubSeq(t, 1, Index(t, "=") - 1))

\* the value of the entry: the text after the first "=" of the trimmed line,
\* without its quotes and with \\ then \" unescaped when it has two characters
\* or more and starts and ends with a double quote
EntryValue(l) ==
  LET t == TrimSpace(l)
      v == SubSeq(t, Index(t, "=") + 1, Len(t))
  IN IF Len(v) >= 2 /\ v[1] = "\"" /\ v[Len(v)] = "\""
     THEN ReplaceAll(ReplaceAll(SubSeq(v, 2, Len(v) - 1), <<"\\", "\\">>, <<"\\">>),
                     <<"\\", "\"">>, <<"\"">>)
     ELSE v

\* C29: the map readExistingEnvFile returns holds exactly the keys of the
\* lines that are not blank, do not start with "#" and hold an "="; each key
\* maps to the value of the last such line with that key, unquoted and
\* unescaped when quoted, so KEY= and KEY="" both give the empty string
C29_ExistingDecoderRules ==
  ExistingDone =>
    LET lines == codecIn[1].lines
        ex == codecOut[1].ex
        entries == {i \in 1..Len(lines) : HasEntry(lines[i])}
    IN /\ DOMAIN ex = {EntryKey(lines[i]) : i \in entries}
       /\ \A i \in entries :
            (\A j \in entries : EntryKey(lines[j]) = EntryKey(lines[i]) => j <= i)
              => ex[EntryKey(lines[i])] = EntryValue(lines[i])
       /\ \A i \in entries :
            EntryValue(lines[i]) = EmptyStr
              <=> SubSeq(TrimSpace(lines[i]), Index(TrimSpace(lines[i]), "=") + 1,
                         Len(TrimSpace(lines[i]))) \in {EmptyStr, <<"\"", "\"">>}

\* C29 witness: A=1, a line without "=", then A=2: one entry, the last value
C29_Witness ==
  /\ ExistingDone
  /\ codecIn[1].lines = << <<"A", "=", "1">>, <<"A">>, <<"A", "=", "2">> >>
  /\ codecOut[1].ex = (<<"A">> :> <<"2">>)

\* the line on which the template first declares key k
FirstDeclared(k) ==
  CHOOSE i \in 1..Len(envVars) :
    envVars[i].Key = k /\ \A j \in 1..(i - 1) : envVars[j].Key # k

\* C30 (as stated): a successful write leaves the same target for the same
\* collected values and template, with the key lines in template declaration
\* order
C30_StableTemplateOrder ==
  (Committed /\ WriteSucceeded) =>
    \E order \in KeyOrders(envValuesToSave) :
      /\ fs[EnvPath] = File(EncodeLines(envValuesToSave, order, Len(order)))
      /\ \A a, b \in 1..Len(order) :
           a < b => FirstDeclared(order[a]) < FirstDeclared(order[b])

\* the user left every field as Init prefilled it
AllAccepted == \A k \in TemplateKeys : NotEdited(k)

\* the run ended in the no-change terminal state and touched no file
NoChangeEnd ==
  /\ quitting /\ err = NoErr /\ ~confirming /\ confirmForm = "nil"
  /\ diffSummary = NoChangesMsg
  /\ FilesUntouched

\* C31 (as stated): a second run over the same template, started on the file
\* a first run committed (values without newline or carriage return), in
\* which the user accepts every prefilled value, ends in the no-change
\* terminal state without backup or write
C31_RerunIsNoOp ==
  (FormCompleted /\ AllAccepted) => NoChangeEnd

\* every field finds, in the committed file as it is read back, a non-empty
\* value for its key, or has no template default to fall back on
NoDefaultRefill ==
  \A i \in 1..Len(envVars) :
    /\ envVars[i].Key \in DOMAIN existingEnvValues
    /\ existingEnvValues[envVars[i].Key] # EmptyStr \/ envVars[i].ExampleValue = EmptyStr

\* C31 (amended): such a second run ends in the no-change terminal state
\* without backup or write when every key that has a non-empty template
\* default reads back from the committed file with a non-empty value; a key
\* that reads back empty and has a non-empty default is prefilled with the
\* default, and the run then enters the confirmation phase with a change
C31_RerunIsNoOpUnlessDefaultRefills ==
  (FormCompleted /\ AllAccepted) =>
    /\ NoDefaultRefill => NoChangeEnd
    /\ (\A i \in 1..Len(envVars) :
          /\ envVars[i].Key \in DOMAIN existingEnvValues
          /\ envVars[i].ExampleValue # EmptyStr
          /\ existingEnvValues[envVars[i].Key] = EmptyStr)
         => (confirming /\ diffSummary # NoChangesMsg)

\* C31 witness: the first run committed A with a backslash and a double quote
\* and B empty; the second run, all prefilled values accepted, ended with no
\* change
C31_Witness ==
  /\ FormCompleted /\ AllAccepted /\ NoChangeEnd
  /\ Len(envVars) = 2
  /\ existingEnvValues = (<<"A">> :> <<"a", "\\", "\"">>) @@ (<<"B">> :> EmptyStr)
  /\ fields[1].value = <<"a", "\\", "\"">> /\ fields[2].value = EmptyStr

\* the value holds no newline and no carriage return
OneLineValue(v) == \A i \in 1..Len(v) : v[i] \notin {"\n", "\r"}

\* the value is one the encoder puts between quotes
QuotedValue(v) == v = EmptyStr \/ \E i \in 1..Len(v) : v[i] \in DisallowedChars

\* C32: for every value without newline and carriage return that is emitted
\* between quotes, backslashes and double quotes in any combination and
\* position, readExistingEnvFile decodes the emitted line to exactly the key
\* and the original value, and unescaping the emitted text (\\ first, then \")
\* gives the original value back
C32_QuotedRoundTrip ==
  (EncodeDone /\ OneLineValue(codecIn[1].value) /\ QuotedValue(codecIn[1].value))
    => /\ codecOut[1].decoded = (codecIn[1].key :> codecIn[1].value)
       /\ ReplaceAll(ReplaceAll(SubSeq(EmittedValue, 2, Len(EmittedValue) - 1),
                                <<"\\", "\\">>, <<"\\">>),
                     <<"\\", "\"">>, <<"\"">>) = codecIn[1].value

\* C32 witness: a double quote between two backslashes, emitted as \\\"\\
\* between quotes and decoded back
C32_Witness ==
  /\ EncodeDone /\ codecIn[1].value = <<"\\", "\"", "\\">>
  /\ EmittedValue = <<"\"", "\\", "\\", "\\", "\"", "\\", "\\", "\"">>
  /\ codecOut[1].decoded = (codecIn[1].key :> <<"\\", "\"", "\\">>)

\* C33: after a ctrl+c received in the confirmation phase the run is quitting
\* with the quit command returned, no error, the confirm form left as it was
\* and no file touched, whatever answer the confirm form holds (applyChanges
\* is true from the start); and a file is touched only in a run whose confirm
\* form completed with applyChanges true
C33_CtrlCWhileConfirmingWritesNothing ==
  /\ (lastMsg = "ctrl+c" /\ confirming)
       => /\ quitting /\ err = NoErr /\ lastCmd = "quit"
          /\ confirmForm = "normal"
          /\ FilesUntouched
  /\ (ioLog # << >> \/ fs # fs0)
       => (lastMsg # "ctrl+c" /\ confirming /\ confirmForm = "completed" /\ applyChanges)

\* C33 witness: ctrl+c arrived while the confirm form waited with its default
\* answer, yes, over an existing .env and two collected values
C33_Witness ==
  /\ lastMsg = "ctrl+c" /\ confirming /\ quitting /\ applyChanges
  /\ confirmForm = "normal" /\ FilesUntouched
  /\ fs0[EnvPath].kind = "file" /\ Cardinality(DOMAIN envValuesToSave) = 2

\* the commit step ran and called writeEnvFile on the output path
CommitWrote ==
  /\ Committed
  /\ \E i \in 1..Len(ioLog) :
       ioLog[i].path = envOutputFilePath /\ ioLog[i].op \in {"create", "createFailed"}

\* C34 (as stated): for every value of envOutputFilePath, the commit step
\* makes or attempts a backup only when the file at the output path existed
\* as a regular file, and a backup made holds the prior content of the file at
\* the output path
C34_BackupIsOfOutputFile ==
  CommitWrote =>
    /\ (BackedUp \/ BackupFailed) => fs0[envOutputFilePath].kind = "file"
    /\ BackedUp => fs[EnvOldPath] = File(fs0[envOutputFilePath].data)

\* C35 (as stated): when the backup fails at any of its steps, a backup file
\* that existed before the run still holds its previous content, and after
\* the write that follows, .env or .env.old still holds a complete earlier
\* version of the configuration
C35_FailedBackupDestroysNothing ==
  (Committed /\ BackupFailed /\ fs0[EnvOldPath].kind = "file")
    => /\ fs[EnvOldPath] = fs0[EnvOldPath]
       /\ \E p \in {EnvPath, EnvOldPath} : fs[p] \in {fs0[EnvPath], fs0[EnvOldPath]}

\* a field of the form is not a text input
SomeFieldNotInput == \E i \in 1..Len(fields) : ~fields[i].isInput

\* C36: when the main form completes while a field is not a text input, the
\* cast error is recorded and the run is quitting with the quit command
\* returned; nothing of the diff has been computed or stored, the
\* confirmation phase is not entered and no file is touched.  The cast error
\* has no other cause, and a completed main form always leaves the run in the
\* confirmation phase or in a terminal state
C36_NonInputFieldFails ==
  /\ (pc = "running" /\ form = "completed" /\ SomeFieldNotInput)
       => /\ err = ErrCast /\ quitting /\ lastCmd = "quit"
          /\ ~confirming /\ confirmForm = "nil"
          /\ diffSummary = << >> /\ envValuesToSave = EmptyMap
          /\ FilesUntouched
  /\ err = ErrCast => (form = "completed" /\ SomeFieldNotInput)
  /\ form = "completed" => (confirming \/ Terminal)

\* C36 witness: the second of two fields is not a text input, the first was
\* edited, the form completed over an existing .env
C36_Witness ==
  /\ pc = "running" /\ form = "completed" /\ err = ErrCast /\ quitting
  /\ Len(fields) = 2 /\ fields[1].isInput /\ ~fields[2].isInput
  /\ fields[1].value = <<"x", " ", "y">>
  /\ fs0[EnvPath].kind = "file" /\ FilesUntouched

====
